---- MODULE Spec2Model ----
(***************************************************************************)
(* Verification model of the NBC loads application: the seismic hazard     *)
(* resolver (getSeismicHazardDataBySiteClass and its helpers), the         *)
(* probability / return-period converters, and the design-record selection *)
(* of the API-backed seismic calculator.                                   *)
(*                                                                         *)
(* Number representation.  JavaScript numbers are modelled as fixed-point  *)
(* integers:                                                               *)
(*   - probabilities and logarithms in units of 1/Scale;                   *)
(*   - latitudes and longitudes in units of 1/CoordScale degree;           *)
(*   - spectral values (pga, sa0p2, ...) in thousandths of their unit;     *)
(*   - return periods handed to getPoe50FromReturnPeriod in units of       *)
(*     1/RpScale year; return periods produced by Math.round in years.     *)
(* An optional field (TypeScript `x?: T`) is <<>> when absent and <<v>>    *)
(* when present with value v.                                              *)
(***************************************************************************)
EXTENDS Integers, Sequences, FiniteSets, TLC

\* Fixed-point resolution of probabilities, exponents and logarithms.
Scale == 10000000
\* Coordinates are held in 1/CoordScale degree: five decimal places.
CoordScale == 100000
\* Return periods given to getPoe50FromReturnPeriod are held in half years.
RpScale == 2

\* ------------------------------------------------------------------------
\* Bounds of the model.
\* ------------------------------------------------------------------------
\* Largest 50-year probability tried, in hundredths (1.10).
MaxPoe50 == 110
\* Largest return period tried by the converter round trip, in years.
MaxReturnPeriod == 5000
\* Longest designation sequence of a remote response.
MaxDesignations == 2
\* Longest record sequence handed to the calculator's effects.
MaxRecords == 2

\* ------------------------------------------------------------------------
\* Fixed-point arithmetic standing for the double arithmetic of the code.
\* ------------------------------------------------------------------------
\* <<quotient, remainder>> of a * b by c, for a, b >= 0 and 0 < c < 2^30,
\* computed by halving b so that no intermediate value exceeds 2 * c.
RECURSIVE MulDivQR(_, _, _)
MulDivQR(a, b, c) ==
    IF c <= 0 \/ b = 0 \/ a = 0 THEN <<0, 0>>
    ELSE LET h  == MulDivQR(a, b \div 2, c)
             r2 == 2 * h[2]
             q3 == 2 * h[1] + (IF r2 >= c THEN 1 ELSE 0)
             r3 == IF r2 >= c THEN r2 - c ELSE r2
             r4 == r3 + (a % c)
         IN  IF b % 2 = 0 THEN <<q3, r3>>
             ELSE <<q3 + (a \div c) + (IF r4 >= c THEN 1 ELSE 0),
                    IF r4 >= c THEN r4 - c ELSE r4>>

MulDiv(a, b, c) == MulDivQR(a, b, c)[1]

\* Product and quotient of two fixed-point numbers.
MulS(a, b) ==
    IF b = Scale THEN a ELSE IF a = Scale THEN b ELSE MulDiv(a, b, Scale)
DivS(a, b) == MulDiv(a, Scale, b)

\* Taylor series of exp(-f), 0 <= f <= 1, summed until the term vanishes.
RECURSIVE ExpSeries(_, _, _, _)
ExpSeries(f, term, k, acc) ==
    IF term = 0 THEN acc
    ELSE LET t == MulS(term, f) \div k
         IN  ExpSeries(f, t, k + 1, IF k % 2 = 1 THEN acc - t ELSE acc + t)

ExpNegFrac(f) == ExpSeries(f, Scale, 1, Scale)

\* exp(-1).
ExpMinusOne == ExpNegFrac(Scale)

\* acc * exp(-1)^n, stopping as soon as the product has underflowed to 0.
RECURSIVE TimesExpMinus(_, _)
TimesExpMinus(acc, n) ==
    IF n = 0 \/ acc = 0 THEN acc ELSE TimesExpMinus(MulS(acc, ExpMinusOne), n - 1)

\* Math.exp(-x) for x >= 0: exp(-x) = exp(-frac(x)) * exp(-1)^floor(x).
MathExpNeg(x) == TimesExpMinus(ExpNegFrac(x % Scale), x \div Scale)

\* atanh series z + z^3/3 + z^5/5 + ..., summed until the power vanishes.
RECURSIVE AtanhSeries(_, _, _, _)
AtanhSeries(z2, pw, k, acc) ==
    IF pw = 0 THEN acc
    ELSE AtanhSeries(z2, MulS(pw, z2), k + 2, acc + pw \div k)

\* -ln(m) for 1/2 <= m <= 1: 2 atanh((1 - m) / (1 + m)).
LnNegCore(m) ==
    LET z == DivS(Scale - m, Scale + m)
    IN  2 * AtanhSeries(MulS(z, z), z, 1, 0)

\* ln 2.
Ln2 == LnNegCore(Scale \div 2)

\* How often y, 0 < y <= 1, is doubled before it exceeds 1/2.
RECURSIVE Doublings(_)
Doublings(y) == IF 2 * y <= Scale THEN 1 + Doublings(2 * y) ELSE 0

\* -Math.log(y) for 0 < y <= 1: y is doubled into (1/2, 1], adding ln 2 each
\* time.
MathLogNeg(y) ==
    LET n == Doublings(y)
    IN  n * Ln2 + LnNegCore(y * (2 ^ n))

\* The value that stands for -Infinity (no finite result reaches it).
NegInfinity == 0 - 2147483647

\* Math.round(num / den) for den > 0: the nearest integer, halves upwards.
MathRound(num, den) == (2 * num + den) \div (2 * den)

\* ------------------------------------------------------------------------
\* The converters (4.1).
\* ------------------------------------------------------------------------
\* A uniform default: the 2475-year (2 % in 50 years) design return period.
DefaultReturnPeriod == 2475

\* The guard of getReturnPeriodFromPoe50 with the boundaries let through.
Poe50OutOfDomainOpen(poe50) == poe50 < 0 \/ poe50 > Scale

\* The guard of getReturnPeriodFromPoe50: poe50 <= 0 || poe50 >= 1.
Poe50OutOfDomain(poe50) == poe50 <= 0 \/ poe50 >= Scale

\* Math.round(-50 / Math.log(y)) for 0 <= y <= 1: Math.log(0) is -Infinity
\* and the quotient 0; Math.log(1) is 0 and the quotient -Infinity.
RoundedPeriodOfLog(y) ==
    IF y = 0 THEN 0
    ELSE LET l == MathLogNeg(y)
         IN  IF l = 0 THEN NegInfinity ELSE MathRound(50 * Scale, l)

getReturnPeriodFromPoe50(poe50) ==
    IF Poe50OutOfDomain(poe50) THEN DefaultReturnPeriod
    ELSE RoundedPeriodOfLog(Scale - poe50)

\* getPoe50FromReturnPeriod with the exponent of a 100-year window.
getPoe50FromReturnPeriod100(returnPeriod) ==
    IF returnPeriod = 0 THEN Scale
    ELSE Scale - MathExpNeg(MulDiv(100 * RpScale, Scale, returnPeriod))

\* 1 - Math.exp(-50 / returnPeriod), returnPeriod >= 0 in 1/RpScale year;
\* -50 / 0 is -Infinity and its exponential 0.
getPoe50FromReturnPeriod(returnPeriod) ==
    IF returnPeriod = 0 THEN Scale
    ELSE Scale - MathExpNeg(MulDiv(50 * RpScale, Scale, returnPeriod))

\* ------------------------------------------------------------------------
\* Data of the hazard resolver.
\* ------------------------------------------------------------------------
\* Math.abs.
Abs(x) == IF x < 0 THEN 0 - x ELSE x

\* Number.prototype.toFixed(4) of a coordinate held with five decimals: the
\* nearest multiple of 10, the sign set aside as toFixed does.
ToFixed4(x) ==
    IF x >= 0 THEN ((x + 5) \div 10) * 10
    ELSE 0 - (((0 - x) + 5) \div 10) * 10

\* The template string `${latitude.toFixed(4)}, ${longitude.toFixed(4)}`.
CoordinateLabel(latitude, longitude) == <<ToFixed4(latitude), ToFixed4(longitude)>>

\* A location given by name.
NameLabel(name) == <<name>>

\* CanSHM6SiteClass, and a string outside it as the action can pass.
SiteClasses == {"A", "B", "C", "D", "E"}

\* The numeric fields a designation may carry and a record reports.
SpectralFields ==
    {"pga", "pgv", "sa0p05", "sa0p1", "sa0p2", "sa0p3", "sa0p5", "sa1p0",
     "sa2p0", "sa5p0", "sa10p0"}

\* The site class with every boundary value given to the class below.
getSiteClassFromVs30Strict(vs30) ==
    IF vs30 > 1500 THEN "A"
    ELSE IF vs30 > 760 THEN "B"
    ELSE IF vs30 > 360 THEN "C"
    ELSE IF vs30 > 180 THEN "D"
    ELSE "E"

getSiteClassFromVs30(vs30) ==
    IF vs30 >= 1500 THEN "A"
    ELSE IF vs30 >= 760 THEN "B"
    ELSE IF vs30 >= 360 THEN "C"
    ELSE IF vs30 >= 180 THEN "D"
    ELSE "E"

getVs30FromSiteClass(siteClass) ==
    CASE siteClass = "A" -> 1500
      [] siteClass = "B" -> 1100
      [] siteClass = "C" -> 560
      [] siteClass = "D" -> 270
      [] siteClass = "E" -> 135
      [] OTHER -> 760

\* A SeismicHazardData value; s holds the spectral values (pga, pgv, sa0p05
\* .. sa10p0, in that order) in thousandths.
HazardRecord(location, latitude, longitude, s, returnPeriod, siteClass, vs30, zones) ==
    [location |-> location, latitude |-> latitude, longitude |-> longitude,
     pga |-> <<s[1]>>, pgv |-> <<s[2]>>, sa0p05 |-> <<s[3]>>,
     sa0p1 |-> <<s[4]>>, sa0p2 |-> <<s[5]>>, sa0p3 |-> <<s[6]>>,
     sa0p5 |-> <<s[7]>>, sa1p0 |-> <<s[8]>>, sa2p0 |-> <<s[9]>>,
     sa5p0 |-> <<s[10]>>, sa10p0 |-> <<s[11]>>,
     returnPeriod |-> returnPeriod, siteClass |-> siteClass, vs30 |-> vs30,
     zones |-> zones]

\* The static fallback table, in table order.
FALLBACK_SEISMIC_DATA ==
    << HazardRecord(NameLabel("Toronto, ON"), 4365320, -7938320,
                    <<210, 150, 450, 500, 550, 450, 280, 120, 40, 20, 10>>,
                    2475, "C", 760, <<>>),
       HazardRecord(NameLabel("Montreal, QC"), 4550170, -7356730,
                    <<320, 220, 680, 750, 780, 650, 410, 180, 60, 30, 15>>,
                    2475, "C", 760, <<>>),
       HazardRecord(NameLabel("Vancouver, BC"), 4928270, -12312070,
                    <<450, 350, 950, 1050, 1120, 950, 580, 240, 80, 40, 20>>,
                    2475, "C", 760, <<>>),
       HazardRecord(NameLabel("Calgary, AB"), 5104470, -11407190,
                    <<80, 50, 180, 200, 220, 180, 110, 50, 20, 10, 5>>,
                    2475, "C", 760, <<>>),
       HazardRecord(NameLabel("Ottawa, ON"), 4542150, -7569720,
                    <<280, 180, 620, 680, 710, 580, 370, 160, 50, 25, 12>>,
                    2475, "C", 760, <<>>) >>

\* 0.1 degree.
Tolerance == CoordScale \div 10

\* The predicate of the fallback search with the longitude left out.
WithinToleranceLatitudeOnly(data, latitude, longitude) ==
    Abs(data.latitude - latitude) < Tolerance

\* The predicate of the fallback search.
WithinTolerance(data, latitude, longitude) ==
    /\ Abs(data.latitude - latitude) < Tolerance
    /\ Abs(data.longitude - longitude) < Tolerance

\* Array.prototype.find: <<>> for undefined, else <<first matching entry>>.
FindFallback(latitude, longitude) ==
    LET hits == { i \in 1 .. Len(FALLBACK_SEISMIC_DATA) :
                    WithinTolerance(FALLBACK_SEISMIC_DATA[i], latitude, longitude) }
    IN  IF hits = {} THEN <<>>
        ELSE << FALLBACK_SEISMIC_DATA[CHOOSE i \in hits : \A j \in hits : i <= j] >>

\* The fallback entry returned as it stands in the table.
FallbackRecordUnchanged(fallback, siteClass) == fallback

\* { ...fallback, vs30: vs30Value, siteClass }.
FallbackRecord(fallback, siteClass) ==
    [fallback EXCEPT !.vs30 = getVs30FromSiteClass(siteClass),
                     !.siteClass = siteClass]

\* The generic fallback record.
GenericRecord(latitude, longitude, siteClass) ==
    HazardRecord(CoordinateLabel(latitude, longitude), latitude, longitude,
                 <<150, 100, 300, 320, 350, 280, 200, 100, 30, 15, 8>>,
                 2475, siteClass, getVs30FromSiteClass(siteClass), <<>>)

\* `x || 0` with the operand handed on as it is.
OrZeroKept(field) == field

\* `x || 0` on an optional number: 0 when absent (or 0), else the number.
OrZero(field) == IF field = <<>> \/ field[1] = 0 THEN <<0>> ELSE field

\* designation.poe50 ? getReturnPeriodFromPoe50(designation.poe50) : 2475.
CalculatedReturnPeriod(designation) ==
    IF designation.poe50 # <<>> /\ designation.poe50[1] # 0
    THEN getReturnPeriodFromPoe50(designation.poe50[1])
    ELSE 2475

\* The vs30 value of a processed record.
ProcessedVs30(designation, siteClass, dataType) ==
    IF dataType = "siteClass" THEN getVs30FromSiteClass(siteClass)
    ELSE IF designation.vs30 # <<>> THEN designation.vs30[1][1]
    ELSE getVs30FromSiteClass(siteClass)

\* The record pushed for one designation.
DesignationRecord(designation, nbcData, latitude, longitude, siteClass, dataType) ==
    [location |-> CoordinateLabel(latitude, longitude),
     latitude |-> latitude, longitude |-> longitude,
     pga |-> OrZero(designation.pga), pgv |-> OrZero(designation.pgv),
     sa0p05 |-> OrZero(designation.sa0p05), sa0p1 |-> OrZero(designation.sa0p1),
     sa0p2 |-> OrZero(designation.sa0p2), sa0p3 |-> OrZero(designation.sa0p3),
     sa0p5 |-> OrZero(designation.sa0p5), sa1p0 |-> OrZero(designation.sa1p0),
     sa2p0 |-> OrZero(designation.sa2p0), sa5p0 |-> OrZero(designation.sa5p0),
     sa10p0 |-> OrZero(designation.sa10p0),
     returnPeriod |-> CalculatedReturnPeriod(designation),
     siteClass |-> siteClass,
     vs30 |-> ProcessedVs30(designation, siteClass, dataType),
     zones |-> nbcData.metadata.zones]

\* The designation sequence a data type reads: <<>> when the field is absent,
\* else <<the sequence>>.
DesignationsOf(nbcData, dataType) ==
    IF dataType = "siteClass" THEN nbcData.siteDesignationsXs
    ELSE nbcData.siteDesignationsXv

\* processSiteDesignations: [threw |-> TRUE] when it throws, else its result.
processSiteDesignations(nbcData, latitude, longitude, siteClass, dataType) ==
    LET designations == DesignationsOf(nbcData, dataType)
    IN  IF designations = <<>>
        THEN [threw |-> TRUE, value |-> <<>>]
        ELSE [threw |-> FALSE,
              value |-> [i \in 1 .. Len(designations[1]) |->
                            DesignationRecord(designations[1][i], nbcData,
                                              latitude, longitude, siteClass,
                                              dataType)]]

\* ------------------------------------------------------------------------
\* State.
\* ------------------------------------------------------------------------
VARIABLES
    convOp,     \* the converter call made: "none", "rp", "poe", "roundtrip",
                \* "vs30", "legacy"
    convIn,     \* its argument
    convMid,    \* the probability, or the vs30, in the middle of a round trip
    convOut,    \* its result
    pc,         \* position of one getSeismicHazardDataBySiteClass call
    query,      \* its arguments: latitude, longitude, siteClass
    resp1,      \* what the site-class request came back with
    resp2,      \* what the vs30 request came back with
    calls1,     \* site-class requests issued
    calls2,     \* vs30 requests issued
    lookups,    \* searches of FALLBACK_SEISMIC_DATA made
    outcome,    \* the returned promise: "pending", "resolved", "rejected"
    result,     \* the value it resolved with
    seismicData,        \* the calculator's loader data: <<>> for null
    actionData,         \* useActionData(): <<>> for undefined
    currentSeismicData, \* the hazard record in use: <<>> for null
    isLoading,          \* the loading flag
    submitted,          \* a get-seismic-data submission is outstanding
    loaderEffectDue,    \* the effect on [seismicData] has yet to run
    actionEffectDue     \* the effect on [actionData] has yet to run

convVars == <<convOp, convIn, convMid, convOut>>

resolverVars == <<pc, query, resp1, resp2, calls1, calls2, lookups, outcome, result>>

calcVars == <<seismicData, actionData, currentSeismicData, isLoading, submitted,
              loaderEffectDue, actionEffectDue>>

VARIABLES
    apiPc,      \* position of one getSeismicHazardWithFallback call
    apiQuery,   \* its arguments: latitude, longitude
    apiRemote,  \* how getSeismicHazard ended: "none", "ok", "error"
    apiCity,    \* closestCity: <<>> before the reduce, else <<city>>
    apiOutcome, \* the returned promise: "pending", "resolved", "rejected"
    apiResult   \* the value it resolved with: <<>> for none or undefined, else <<record>>

apiVars == <<apiPc, apiQuery, apiRemote, apiCity, apiOutcome, apiResult>>

VARIABLES
    step,               \* the snow calculator's wizard step: 1, 2, 3
    selectedLocation,   \* <<>> for null, else <<[ss, sr]>>
    customLocation,     \* groundSnowLoad and rainLoad: <<>> for "", else <<number typed>>
    roofParams,         \* length, width, slope, height, isSlippery, terrainType
    importanceFactors,  \* category
    calculationFactors, \* <<>> for null, else <<factors>>
    snowLoadCases,      \* the load cases computed last
    showResults         \* results are on display

snowVars == <<step, selectedLocation, customLocation, roofParams, importanceFactors,
              calculationFactors, snowLoadCases, showResults>>

VARIABLES
    windStep,           \* the wind calculator's step: 1 (location), 2 (workspace)
    windLocation,       \* selectedLocation: <<>> for null, else <<[city, windSpeed]>>
    customWind,         \* location and windSpeed: <<>> for "", else <<text typed>>
    buildingGeom,       \* length, width, height, roofType, roofSlope, openingRatio
    siteParams,         \* exposure, topography, terrainCategory
    analysisType,       \* "mwfrs" or "cc"
    windResults,        \* the surface results computed last
    windShowResults     \* showResults of the wind calculator

windVars == <<windStep, windLocation, customWind, buildingGeom, siteParams,
              analysisType, windResults, windShowResults>>

VARIABLES
    wizardStep,         \* the seismic wizard's step: 1 .. 4
    selectedCity,       \* <<>> for null, else <<name>>
    seismicLocation,    \* customLocation: latitude and longitude typed or geocoded
    addressSearch,      \* the text of the address field
    geocoding,          \* handleAddressSearch awaits geocodeAddress
    buildingParams,     \* importance, height, weight, structuralSystem,
                        \* irregularities, siteClass
    formSiteClass,      \* siteClass of the form submitted last: <<>> when the
                        \* form has no such field
    seismicResults      \* the results computed last

wizardVars == <<wizardStep, selectedCity, seismicLocation, addressSearch, geocoding,
                buildingParams, formSiteClass, seismicResults>>

VARIABLES
    tableStep,          \* step of the table calculator: 1 (location), 2 (workspace)
    tableLocation,      \* selectedLocation of the table calculator: <<>> for null
    customSeismic,      \* PGA, Sa02, Sa10 typed: <<>> for ""
    tableParams,        \* buildingParams of the table calculator
    tableResults,       \* its seismicResults
    tableShowResults    \* its showResults

tableVars == <<tableStep, tableLocation, customSeismic, tableParams, tableResults, tableShowResults>>

seismicVars == <<wizardVars, tableVars>>

engineVars == <<apiVars, snowVars, windVars, seismicVars>>

coreVars == <<convVars, resolverVars, calcVars, seismicVars>>

\* Everything but the two seismic calculators.
otherVars == <<convVars, resolverVars, apiVars, snowVars, windVars>>

vars == <<convOp, convIn, convMid, convOut,
          pc, query, resp1, resp2, calls1, calls2, lookups, outcome, result,
          seismicData, actionData, currentSeismicData, isLoading, submitted,
          loaderEffectDue, actionEffectDue, engineVars>>

\* getSeismicHazardWithFallback before it is called.
ApiIdle ==
    /\ apiPc = "idle"
    /\ apiQuery = [latitude |-> 0, longitude |-> 0]
    /\ apiRemote = "none"
    /\ apiCity = <<>>
    /\ apiOutcome = "pending"
    /\ apiResult = <<>>

\* The snow calculator as its useState calls leave it.
SnowIdle ==
    /\ step = 1
    /\ selectedLocation = <<>>
    /\ customLocation = [groundSnowLoad |-> <<>>, rainLoad |-> <<>>]
    /\ roofParams = [length |-> 20, width |-> 15, slope |-> 0, height |-> 6,
                     isSlippery |-> FALSE, terrainType |-> "open"]
    /\ importanceFactors = [category |-> "normal"]
    /\ calculationFactors = <<>>
    /\ snowLoadCases = <<>>
    /\ showResults = FALSE

\* The wind calculator as its useState calls leave it.
WindIdle ==
    /\ windStep = 1
    /\ windLocation = <<>>
    /\ customWind = [location |-> <<>>, windSpeed |-> <<>>]
    /\ buildingGeom = [length |-> 30, width |-> 20, height |-> 12, roofType |-> "flat",
                       roofSlope |-> 0, openingRatio |-> 15]
    /\ siteParams = [exposure |-> "B", topography |-> "normal", terrainCategory |-> 2]
    /\ analysisType = "mwfrs"
    /\ windResults = <<>>
    /\ windShowResults = FALSE

\* The seismic wizard as its useState calls leave it.
WizardIdle ==
    /\ wizardStep = 1
    /\ selectedCity = <<>>
    /\ seismicLocation = [latitude |-> <<>>, longitude |-> <<>>]
    /\ addressSearch = ""
    /\ geocoding = FALSE
    /\ buildingParams = [importance |-> "Normal", height |-> 20, weight |-> 10000,
                         structuralSystem |-> "Steel Moment Frame - Ductile",
                         irregularities |-> [vertical |-> FALSE, horizontal |-> FALSE],
                         siteClass |-> "C"]
    /\ formSiteClass = <<>>
    /\ seismicResults = <<>>

\* The table calculator as its useState calls leave it.
TableIdle ==
    /\ tableStep = 1
    /\ tableLocation = <<>>
    /\ customSeismic = [location |-> <<>>, PGA |-> <<>>, Sa02 |-> <<>>, Sa10 |-> <<>>]
    /\ tableParams = [importance |-> "Normal", height |-> 20, floors |-> 5,
                      weight |-> 5000,
                      structuralSystem |-> "Steel Moment Frame - Ductile",
                      irregularities |-> [vertical |-> FALSE, horizontal |-> FALSE],
                      siteClass |-> "C"]
    /\ tableResults = <<>>
    /\ tableShowResults = FALSE

\* Everything outside the resolver, the converters and the calculator at rest.
EngineIdle == ApiIdle /\ SnowIdle /\ WindIdle /\ WizardIdle /\ TableIdle

\* ------------------------------------------------------------------------
\* The remote hazard service, as the resolver sees it.
\* ------------------------------------------------------------------------
\* A designation none of whose fields came back.
EmptyDesignation ==
    [pga |-> <<>>, pgv |-> <<>>, sa0p05 |-> <<>>, sa0p1 |-> <<>>,
     sa0p2 |-> <<>>, sa0p3 |-> <<>>, sa0p5 |-> <<>>, sa1p0 |-> <<>>,
     sa2p0 |-> <<>>, sa5p0 |-> <<>>, sa10p0 |-> <<>>, poe50 |-> <<>>,
     foe |-> <<>>, vs30 |-> <<>>]

\* Designations tried: complete at 2 % in 50 years; empty; partial with a
\* field that is 0, at 10 % in 50 years; probability 0; probability 2.0.
Designations ==
    { [pga |-> <<300>>, pgv |-> <<210>>, sa0p05 |-> <<640>>, sa0p1 |-> <<700>>,
       sa0p2 |-> <<730>>, sa0p3 |-> <<610>>, sa0p5 |-> <<390>>, sa1p0 |-> <<170>>,
       sa2p0 |-> <<55>>, sa5p0 |-> <<28>>, sa10p0 |-> <<14>>,
       poe50 |-> <<2 * (Scale \div 100)>>, foe |-> <<404>>,
       vs30 |-> << <<450>> >>],
      EmptyDesignation,
      [EmptyDesignation EXCEPT !.pga = <<120>>, !.sa0p2 = <<0>>,
                               !.sa1p0 = <<80>>,
                               !.poe50 = <<10 * (Scale \div 100)>>],
      [EmptyDesignation EXCEPT !.pga = <<90>>, !.poe50 = <<0>>],
      [EmptyDesignation EXCEPT !.sa0p2 = <<400>>, !.poe50 = <<2 * Scale>>] }

\* The designation sequences a response may carry.
DesignationSeqs == UNION { [1 .. n -> Designations] : n \in 0 .. MaxDesignations }

\* A CanSHM6Point answering a query of the given data type.
RemotePoint(dataType, designations, zones) ==
    [geometry |-> [type |-> "Point"],
     metadata |-> [projX |-> 0, projY |-> 0, zones |-> zones],
     siteDesignationsXs |-> IF dataType = "siteClass" THEN designations ELSE <<>>,
     siteDesignationsXv |-> IF dataType = "vs30" THEN designations ELSE <<>>]

\* What client.request can do: reject; resolve without NBC2020; resolve with
\* a point that has no designation field; resolve with designations.
RemoteOutcomes(dataType) ==
    { [status |-> "error", NBC2020 |-> <<>>],
      [status |-> "data", NBC2020 |-> <<>>] }
    \cup { [status |-> "data", NBC2020 |-> << RemotePoint(dataType, <<>>, z) >>] :
             z \in { <<>>, << <<"Zone 1">> >> } }
    \cup { [status |-> "data", NBC2020 |-> << RemotePoint(dataType, <<ds>>, z) >>] :
             ds \in DesignationSeqs, z \in { <<>>, << <<"Zone 1">> >> } }

NoResponse == [status |-> "none", NBC2020 |-> <<>>]

\* Query points: Toronto; within 0.1 degree of Toronto on both axes; 0.1
\* degree north of Toronto; 0.1 degree east of Toronto; near Vancouver;
\* Whitehorse (in no fallback entry's reach), with four and five decimals.
QueryPoints ==
    { <<4365320, -7938320>>, <<4375319, -7948318>>, <<4375320, -7938320>>,
      <<4365320, -7928320>>, <<4923267, -12310063>>, <<6072120, -13505680>>,
      <<6072123, -13505677>> }

Queries ==
    { [latitude |-> p[1], longitude |-> p[2], siteClass |-> c] :
        p \in QueryPoints, c \in SiteClasses \cup {"X"} }

\* ------------------------------------------------------------------------
\* getSeismicHazardDataBySiteClass, one call.
\* ------------------------------------------------------------------------
\* Where an exception of the outer try block goes when nothing catches it.
NoOuterCatch == "uncaught"

\* Where an exception of the outer try block goes: the catch of line 314.
OuterCatch == "catch"

\* Where an exception of the inner try block goes: its catch logs and falls
\* through to the vs30 query.
InnerCatch == "try2"

\* data.NBC2020 && data.NBC2020.siteDesignationsXs
Stage1HasDesignations(resp) ==
    resp.NBC2020 # <<>> /\ resp.NBC2020[1].siteDesignationsXs # <<>>

\* The vs30 test reading the site-class field.
Stage2LacksDesignationsXs(resp) ==
    resp.NBC2020 = <<>> \/ resp.NBC2020[1].siteDesignationsXs = <<>>

\* !data.NBC2020 || !data.NBC2020.siteDesignationsXv
Stage2LacksDesignations(resp) ==
    resp.NBC2020 = <<>> \/ resp.NBC2020[1].siteDesignationsXv = <<>>

\* The function returns value.
Return(value) ==
    /\ pc' = "done"
    /\ outcome' = "resolved"
    /\ result' = value

\* Control leaves for a handler; with no handler the promise rejects.
Throw(handler) ==
    /\ pc' = IF handler = "uncaught" THEN "done" ELSE handler
    /\ outcome' = IF handler = "uncaught" THEN "rejected" ELSE outcome
    /\ UNCHANGED result

ResolverInit ==
    /\ pc = "idle"
    /\ query = [latitude |-> 0, longitude |-> 0, siteClass |-> "C"]
    /\ resp1 = NoResponse
    /\ resp2 = NoResponse
    /\ calls1 = 0
    /\ calls2 = 0
    /\ lookups = 0
    /\ outcome = "pending"
    /\ result = <<>>

\* The call: the arguments are bound and the outer try is entered.
Call ==
    /\ pc = "idle"
    /\ \E q \in Queries : query' = q
    /\ pc' = "try1"
    /\ UNCHANGED <<resp1, resp2, calls1, calls2, lookups, outcome, result>>
    /\ UNCHANGED <<convVars, calcVars, engineVars>>

\* client.request(GET_SEISMIC_DATA_BY_SITE_CLASS, variables) is issued.
RequestBySiteClass ==
    /\ pc = "try1"
    /\ calls1' = calls1 + 1
    /\ pc' = "await1"
    /\ UNCHANGED <<query, resp1, resp2, calls2, lookups, outcome, result>>
    /\ UNCHANGED <<convVars, calcVars, engineVars>>

\* The site-class request settles; the inner try returns or falls through.
SiteClassResponse ==
    /\ pc = "await1"
    /\ \E r \in RemoteOutcomes("siteClass") :
        /\ resp1' = r
        /\ IF r.status = "error" THEN Throw(InnerCatch)
           ELSE IF Stage1HasDesignations(r)
           THEN LET p == processSiteDesignations(r.NBC2020[1], query.latitude,
                             query.longitude, query.siteClass, "siteClass")
                IN  IF p.threw THEN Throw(InnerCatch) ELSE Return(p.value)
           ELSE /\ pc' = "try2"
                /\ UNCHANGED <<outcome, result>>
    /\ UNCHANGED <<query, resp2, calls1, calls2, lookups>>
    /\ UNCHANGED <<convVars, calcVars, engineVars>>

\* client.request(GET_SEISMIC_DATA_BY_VS30, vs30Variables) is issued.
RequestByVs30 ==
    /\ pc = "try2"
    /\ calls2' = calls2 + 1
    /\ pc' = "await2"
    /\ UNCHANGED <<query, resp1, resp2, calls1, lookups, outcome, result>>
    /\ UNCHANGED <<convVars, calcVars, engineVars>>

\* The vs30 request settles; the outer try returns or throws.
Vs30Response ==
    /\ pc = "await2"
    /\ \E r \in RemoteOutcomes("vs30") :
        /\ resp2' = r
        /\ IF r.status = "error" THEN Throw(OuterCatch)
           ELSE IF Stage2LacksDesignations(r) THEN Throw(OuterCatch)
           ELSE LET p == processSiteDesignations(r.NBC2020[1], query.latitude,
                             query.longitude, query.siteClass, "vs30")
                IN  IF p.threw THEN Throw(OuterCatch) ELSE Return(p.value)
    /\ UNCHANGED <<query, resp1, calls1, calls2, lookups>>
    /\ UNCHANGED <<convVars, calcVars, engineVars>>

\* The outer catch: the fallback table is searched, and the matching entry
\* or the generic record is returned.
Fallback ==
    /\ pc = "catch"
    /\ lookups' = lookups + 1
    /\ LET fallback == FindFallback(query.latitude, query.longitude)
       IN  IF fallback # <<>>
           THEN Return(<< FallbackRecord(fallback[1], query.siteClass) >>)
           ELSE Return(<< GenericRecord(query.latitude, query.longitude,
                                        query.siteClass) >>)
    /\ UNCHANGED <<query, resp1, resp2, calls1, calls2>>
    /\ UNCHANGED <<convVars, calcVars, engineVars>>

ConvIdle ==
    /\ convOp = "none"
    /\ convIn = 0
    /\ convMid = 0
    /\ convOut = 0

\* The calculator page before it is mounted.
CalcIdle ==
    /\ seismicData = <<>>
    /\ actionData = <<>>
    /\ currentSeismicData = <<>>
    /\ isLoading = FALSE
    /\ submitted = FALSE
    /\ loaderEffectDue = FALSE
    /\ actionEffectDue = FALSE

Init == ResolverInit /\ ConvIdle /\ CalcIdle /\ EngineIdle

Next ==
    \/ Call
    \/ RequestBySiteClass
    \/ SiteClassResponse
    \/ RequestByVs30
    \/ Vs30Response
    \/ Fallback

Spec == Init /\ [][Next]_vars

\* ------------------------------------------------------------------------
\* The converters applied to bounded inputs.
\* ------------------------------------------------------------------------
\* 50-year probabilities tried: -0.05 .. MaxPoe50/100 in hundredths, and 2.0,
\* the value the calculator sends as its requested probability.
Poe50Inputs == { k * (Scale \div 100) : k \in -5 .. MaxPoe50 } \cup { 2 * Scale }

\* Return periods tried, in half years.
ReturnPeriodInputs == 0 .. (RpScale * MaxReturnPeriod)

ConvInit == ConvIdle /\ ResolverInit /\ CalcIdle /\ EngineIdle

CallReturnPeriodFromPoe50 ==
    /\ convOp = "none"
    /\ \E p \in Poe50Inputs :
        /\ convOp' = "rp"
        /\ convIn' = p
        /\ convMid' = p
        /\ convOut' = getReturnPeriodFromPoe50(p)
    /\ UNCHANGED <<resolverVars, calcVars, engineVars>>

CallPoe50FromReturnPeriod ==
    /\ convOp = "none"
    /\ \E t \in ReturnPeriodInputs :
        /\ convOp' = "poe"
        /\ convIn' = t
        /\ convMid' = getPoe50FromReturnPeriod(t)
        /\ convOut' = 0
    /\ UNCHANGED <<resolverVars, calcVars, engineVars>>

\* getReturnPeriodFromPoe50(getPoe50FromReturnPeriod(T)).
CallRoundTrip ==
    /\ convOp = "poe"
    /\ convOp' = "roundtrip"
    /\ convOut' = getReturnPeriodFromPoe50(convMid)
    /\ UNCHANGED <<convIn, convMid>>
    /\ UNCHANGED <<resolverVars, calcVars, engineVars>>

\* getVs30FromSiteClass(c), the representative velocity of a site class.
CallVs30FromSiteClass ==
    /\ convOp = "none"
    /\ \E c \in SiteClasses :
        /\ convOp' = "vs30"
        /\ convIn' = c
        /\ convMid' = getVs30FromSiteClass(c)
        /\ convOut' = 0
    /\ UNCHANGED <<resolverVars, calcVars, engineVars>>

\* getSeismicHazardData called with that velocity: the site class it hands to
\* getSeismicHazardDataBySiteClass.
CallLegacyEntry ==
    /\ convOp = "vs30"
    /\ convOp' = "legacy"
    /\ convOut' = getSiteClassFromVs30(convMid)
    /\ UNCHANGED <<convIn, convMid>>
    /\ UNCHANGED <<resolverVars, calcVars, engineVars>>

ConvNext ==
    \/ CallReturnPeriodFromPoe50
    \/ CallPoe50FromReturnPeriod
    \/ CallRoundTrip
    \/ CallVs30FromSiteClass
    \/ CallLegacyEntry

SpecConv == ConvInit /\ [][ConvNext]_vars

\* ------------------------------------------------------------------------
\* The API-backed seismic calculator: the two effects that take a record
\* sequence from the resolver and choose the record to design with.
\* ------------------------------------------------------------------------
\* record.returnPeriod >= 2000 && record.returnPeriod <= 3000
InIdealRange(record) == record.returnPeriod >= 2000 /\ record.returnPeriod <= 3000

\* The reduce of the effects: the first record of the least |returnPeriod -
\* 2475|, a later record replacing the closest only when strictly closer.
RECURSIVE ReduceClosest(_, _, _)
ReduceClosest(records, i, closest) ==
    IF i > Len(records) THEN closest
    ELSE LET current == records[i]
             closestDiff == Abs(closest.returnPeriod - 2475)
             currentDiff == Abs(current.returnPeriod - 2475)
         IN  ReduceClosest(records, i + 1,
                           IF currentDiff < closestDiff THEN current ELSE closest)

\* The design record of a non-empty record sequence: the first record in the
\* ideal range, and without one the reduce.
DesignRecord(records) ==
    LET inRange == { i \in 1 .. Len(records) : InIdealRange(records[i]) }
    IN  IF inRange # {}
        THEN records[CHOOSE i \in inRange : \A j \in inRange : i <= j]
        ELSE ReduceClosest(records, 2, records[1])

\* Return periods of the records handed over.
ReturnPeriodChoices == {475, 2100, 2475, 4475}

\* Record sequences a resolver call can hand over: the i-th record is told
\* from the others by its pga.
RecordSeqs ==
    UNION { { [i \in 1 .. n |->
                 [GenericRecord(4365320, -7938320, "C") EXCEPT
                     !.returnPeriod = rps[i], !.pga = <<100 + i>>]] :
              rps \in [1 .. n -> ReturnPeriodChoices] } :
            n \in 0 .. MaxRecords }

\* What the action answers to a get-seismic-data submission.
ActionResults ==
    { [seismicData |-> <<records>>, error |-> <<>>] : records \in RecordSeqs }
    \cup { [seismicData |-> <<>>, error |-> <<"Failed to fetch seismic data">>] }

\* The page is mounted with its loader data; useState takes the first record.
CalcInit ==
    /\ seismicData \in { <<>> } \cup { <<records>> : records \in RecordSeqs }
    /\ actionData = <<>>
    /\ currentSeismicData =
          IF seismicData # <<>> /\ Len(seismicData[1]) > 0
          THEN << seismicData[1][1] >> ELSE <<>>
    /\ isLoading = FALSE
    /\ submitted = FALSE
    /\ loaderEffectDue = TRUE
    /\ actionEffectDue = TRUE
    /\ ResolverInit
    /\ ConvIdle
    /\ EngineIdle

\* useEffect(..., [seismicData]).
LoaderDataEffect ==
    /\ loaderEffectDue
    /\ loaderEffectDue' = FALSE
    /\ currentSeismicData' =
          IF seismicData # <<>> /\ Len(seismicData[1]) > 0
          THEN << DesignRecord(seismicData[1]) >>
          ELSE currentSeismicData
    /\ UNCHANGED <<seismicData, actionData, isLoading, submitted, actionEffectDue>>
    /\ UNCHANGED <<convVars, resolverVars, engineVars>>

\* useEffect(..., [actionData]); effects run in the order they are declared.
ActionDataEffect ==
    /\ actionEffectDue
    /\ ~loaderEffectDue
    /\ actionEffectDue' = FALSE
    /\ IF actionData # <<>> /\ actionData[1].seismicData # <<>>
       THEN /\ currentSeismicData' =
                  IF Len(actionData[1].seismicData[1]) > 0
                  THEN << DesignRecord(actionData[1].seismicData[1]) >>
                  ELSE currentSeismicData
            /\ isLoading' = FALSE
       ELSE IF actionData # <<>> /\ actionData[1].error # <<>>
       THEN /\ isLoading' = FALSE
            /\ UNCHANGED currentSeismicData
       ELSE UNCHANGED <<currentSeismicData, isLoading>>
    /\ UNCHANGED <<seismicData, actionData, submitted, loaderEffectDue>>
    /\ UNCHANGED <<convVars, resolverVars, engineVars>>

\* fetchSeismicData: the flag is raised and the form is submitted.
fetchSeismicData ==
    /\ ~loaderEffectDue /\ ~actionEffectDue
    /\ ~submitted
    /\ isLoading' = TRUE
    /\ submitted' = TRUE
    /\ UNCHANGED <<seismicData, actionData, currentSeismicData,
                   loaderEffectDue, actionEffectDue>>
    /\ UNCHANGED <<convVars, resolverVars, engineVars>>

\* The action's answer arrives as new action data.
ActionReturns ==
    /\ submitted
    /\ \E a \in ActionResults : actionData' = <<a>>
    /\ submitted' = FALSE
    /\ actionEffectDue' = TRUE
    /\ UNCHANGED <<seismicData, currentSeismicData, isLoading, loaderEffectDue>>
    /\ UNCHANGED <<convVars, resolverVars, engineVars>>

CalcNext ==
    \/ LoaderDataEffect
    \/ ActionDataEffect
    \/ fetchSeismicData
    \/ ActionReturns

SpecCalc == CalcInit /\ [][CalcNext]_vars

\* ------------------------------------------------------------------------
\* Claims about the hazard resolver.
\* ------------------------------------------------------------------------
\* A remote query failed: it raised an error or answered without a
\* designation field.
Failed(resp, dataType) ==
    \/ resp.status = "error"
    \/ /\ resp.status = "data"
       /\ \/ resp.NBC2020 = <<>>
          \/ DesignationsOf(resp.NBC2020[1], dataType) = <<>>

\* A remote query answered with a designation field, empty or not.
HasDesignations(resp, dataType) ==
    /\ resp.status = "data"
    /\ resp.NBC2020 # <<>>
    /\ DesignationsOf(resp.NBC2020[1], dataType) # <<>>

\* A remote query answered with a non-empty designation sequence.
HasNonEmptyDesignations(resp, dataType) ==
    /\ HasDesignations(resp, dataType)
    /\ Len(DesignationsOf(resp.NBC2020[1], dataType)[1]) > 0

\* Both remote queries were made and failed.
BothFailed == Failed(resp1, "siteClass") /\ Failed(resp2, "vs30")

\* The fallback entry is within 0.1 degree of the query on both axes.
Near(entry) ==
    /\ entry.latitude - query.latitude < 10000
    /\ query.latitude - entry.latitude < 10000
    /\ entry.longitude - query.longitude < 10000
    /\ query.longitude - entry.longitude < 10000

\* The lookup value of a site class.
LookupVs30 ==
    [c \in SiteClasses \cup {"X"} |->
        CASE c = "A" -> 1500 [] c = "B" -> 1100 [] c = "C" -> 560
          [] c = "D" -> 270 [] c = "E" -> 135 [] OTHER -> 760]

\* C1: the promise of getSeismicHazardDataBySiteClass never rejects: for
\* every query and every combination of outcomes of the two remote queries
\* a finished call has resolved with a value.
NeverRejects ==
    /\ outcome # "rejected"
    /\ pc = "done" => outcome = "resolved"

\* C1 witness: both remote queries raised an error and the call resolved.
ResolvedAfterTwoErrors ==
    /\ pc = "done"
    /\ resp1.status = "error"
    /\ resp2.status = "error"
    /\ outcome = "resolved"

\* C2: every finished call returns a sequence holding at least one record,
\* also when a remote response carries an empty designation sequence.
AtLeastOneRecord == pc = "done" => Len(result) >= 1

\* C3: the vs30 query is attempted if and only if the site-class query
\* raised an error or answered without a non-empty designation sequence, so
\* a site-class response is the result only when its sequence is non-empty.
Stage2IffStage1Unusable ==
    pc = "done" =>
        (calls2 > 0 <=> ~HasNonEmptyDesignations(resp1, "siteClass"))

\* C4: each remote query is issued at most once; the fallback table is
\* searched only after both queries were made and failed; and when the
\* site-class query failed and the vs30 query answered with designations the
\* result is the records of the vs30 response and the table is not searched.
OnceEachThenFallback ==
    /\ calls1 <= 1
    /\ calls2 <= 1
    /\ lookups > 0 => calls1 = 1 /\ calls2 = 1 /\ BothFailed
    /\ (pc = "done" /\ Failed(resp1, "siteClass") /\ HasDesignations(resp2, "vs30")) =>
          /\ lookups = 0
          /\ result = processSiteDesignations(resp2.NBC2020[1], query.latitude,
                          query.longitude, query.siteClass, "vs30").value

\* C4 witness: the site-class query raised an error, the vs30 query answered
\* with designations, and the call returned their records without a search.
Stage2RecordsReturned ==
    /\ pc = "done"
    /\ resp1.status = "error"
    /\ HasNonEmptyDesignations(resp2, "vs30")
    /\ Len(result) = Len(resp2.NBC2020[1].siteDesignationsXv[1])
    /\ lookups = 0

\* C5: when both remote queries fail and a fallback entry is within 0.1
\* degree of the query on both axes, the result is exactly one record: the
\* first such entry with its vs30 replaced by the lookup value of the
\* requested class and its site class replaced by the requested class.
FallbackEntryReturned ==
    (pc = "done" /\ BothFailed) =>
        \A i \in 1 .. Len(FALLBACK_SEISMIC_DATA) :
            ( /\ Near(FALLBACK_SEISMIC_DATA[i])
              /\ \A j \in 1 .. (i - 1) : ~Near(FALLBACK_SEISMIC_DATA[j]) ) =>
            result = << [FALLBACK_SEISMIC_DATA[i] EXCEPT
                            !.vs30 = LookupVs30[query.siteClass],
                            !.siteClass = query.siteClass] >>

\* C5 witness: both queries failed for a class D point 0.09999 degree from
\* Toronto, and Toronto's entry came back with vs30 270 and class D.
TorontoEntryForClassD ==
    /\ pc = "done"
    /\ BothFailed
    /\ query = [latitude |-> 4375319, longitude |-> -7948318, siteClass |-> "D"]
    /\ Len(result) = 1
    /\ result[1].location = <<"Toronto, ON">>
    /\ result[1].pga = <<210>>
    /\ result[1].vs30 = 270
    /\ result[1].siteClass = "D"

\* No fallback entry is within 0.1 degree of the query on both axes.
NoEntryNear == \A i \in 1 .. Len(FALLBACK_SEISMIC_DATA) : ~Near(FALLBACK_SEISMIC_DATA[i])

\* The generic record but for its label: the fixed constants, every spectral
\* field defined, the requested coordinates and the requested class.
IsGenericButLabel(record) ==
    /\ record.pga = <<150>>
    /\ record.sa0p2 = <<350>>
    /\ record.sa1p0 = <<100>>
    /\ record.returnPeriod = 2475
    /\ \A f \in SpectralFields : record[f] # <<>>
    /\ record.latitude = query.latitude
    /\ record.longitude = query.longitude
    /\ record.siteClass = query.siteClass

\* C6 as claimed: when both remote queries fail and no fallback entry is
\* near, the result is exactly one generic record whose location label is the
\* requested coordinate pair.
GenericRecordLabelledByCoordinates ==
    (pc = "done" /\ BothFailed /\ NoEntryNear) =>
        /\ Len(result) = 1
        /\ IsGenericButLabel(result[1])
        /\ result[1].location = <<query.latitude, query.longitude>>

\* C6 as amended: when both remote queries fail and no fallback entry is
\* near, the result is exactly one generic record whose location label is the
\* requested coordinate pair rounded to four decimal places.
GenericRecordLabelledToFourDecimals ==
    (pc = "done" /\ BothFailed /\ NoEntryNear) =>
        /\ Len(result) = 1
        /\ IsGenericButLabel(result[1])
        /\ Len(result[1].location) = 2
        /\ \A k \in 1 .. 2 :
              LET label == result[1].location[k]
                  coordinate == IF k = 1 THEN query.latitude ELSE query.longitude
              IN  /\ label % 10 = 0
                  /\ label - coordinate <= 5
                  /\ coordinate - label <= 5

\* C6 witness: both queries failed for a point at Whitehorse given with five
\* decimals, and the generic record came back labelled with four.
GenericRecordAtWhitehorse ==
    /\ pc = "done"
    /\ BothFailed
    /\ query.latitude = 6072123
    /\ query.longitude = -13505677
    /\ Len(result) = 1
    /\ result[1].pga = <<150>>
    /\ result[1].location = <<6072120, -13505680>>

\* C7: a response with designations becomes one record per designation, in
\* the response's order; a spectral field absent in the designation is 0 in
\* the record and never missing, a present one is kept; the return period is
\* the converter applied to the designation's poe50 when present, else 2475.
OneRecordPerDesignation ==
    (pc = "done" /\ lookups = 0) =>
        LET designations ==
                IF calls2 = 0 THEN resp1.NBC2020[1].siteDesignationsXs[1]
                ELSE resp2.NBC2020[1].siteDesignationsXv[1]
        IN  /\ Len(result) = Len(designations)
            /\ \A i \in 1 .. Len(designations) :
                  /\ \A f \in SpectralFields :
                        /\ result[i][f] # <<>>
                        /\ designations[i][f] = <<>> => result[i][f] = <<0>>
                        /\ designations[i][f] # <<>> => result[i][f] = designations[i][f]
                  /\ result[i].returnPeriod =
                        IF designations[i].poe50 # <<>>
                        THEN getReturnPeriodFromPoe50(designations[i].poe50[1])
                        ELSE 2475

\* C7 witness: a response of two designations, the first with no field and
\* the second at 10 % in 50 years, came back as two records: zeros and 2475
\* years, then 475 years.
TwoDesignationsProcessed ==
    /\ pc = "done"
    /\ lookups = 0
    /\ Len(result) = 2
    /\ result[1].pga = <<0>>
    /\ result[1].sa10p0 = <<0>>
    /\ result[1].returnPeriod = 2475
    /\ result[2].pga = <<120>>
    /\ result[2].returnPeriod = 475

\* ------------------------------------------------------------------------
\* Claims about the seismic calculator.
\* ------------------------------------------------------------------------
\* The record the claim selects: the first of return period 2475 if there is
\* one, else the first of the least absolute difference from 2475.
ClaimedDesignRecord(records) ==
    LET exact == { i \in 1 .. Len(records) : records[i].returnPeriod = 2475 }
        least == { i \in 1 .. Len(records) :
                     \A j \in 1 .. Len(records) :
                        Abs(records[i].returnPeriod - 2475)
                            <= Abs(records[j].returnPeriod - 2475) }
        from  == IF exact # {} THEN exact ELSE least
    IN  records[CHOOSE i \in from : \A j \in from : i <= j]

\* C10: once an effect has taken a non-empty record sequence, the record in
\* use has return period 2475 if the sequence holds such a record, and is
\* otherwise its first record of the least absolute difference from 2475.
DesignRecordIsClosestTo2475 ==
    /\ (~loaderEffectDue /\ actionData = <<>> /\ seismicData # <<>>
            /\ Len(seismicData[1]) > 0) =>
          /\ currentSeismicData # <<>>
          /\ currentSeismicData[1].returnPeriod
                = ClaimedDesignRecord(seismicData[1]).returnPeriod
          /\ (\A i \in 1 .. Len(seismicData[1]) : seismicData[1][i].returnPeriod # 2475)
                => currentSeismicData[1] = ClaimedDesignRecord(seismicData[1])
    /\ (~actionEffectDue /\ actionData # <<>> /\ actionData[1].seismicData # <<>>
            /\ Len(actionData[1].seismicData[1]) > 0) =>
          LET records == actionData[1].seismicData[1]
          IN  /\ currentSeismicData # <<>>
              /\ currentSeismicData[1].returnPeriod
                    = ClaimedDesignRecord(records).returnPeriod
              /\ (\A i \in 1 .. Len(records) : records[i].returnPeriod # 2475)
                    => currentSeismicData[1] = ClaimedDesignRecord(records)

\* ------------------------------------------------------------------------
\* Claims about the converters.
\* ------------------------------------------------------------------------
\* round(-50 / ln(1 - p)) for p in hundredths, from the real-number formula:
\* 0.01, 0.02, 0.05, 0.10, 0.50, 0.90 and 0.99.
ReferencePeriods ==
    [k \in {1, 2, 5, 10, 50, 90, 99} |->
        CASE k = 1  -> 4975
          [] k = 2  -> 2475
          [] k = 5  -> 975
          [] k = 10 -> 475
          [] k = 50 -> 72
          [] k = 90 -> 22
          [] k = 99 -> 11]

SiteClassRoundTrip ==
    convOp = "legacy" =>
        /\ convIn \in SiteClasses
        /\ convMid = getVs30FromSiteClass(convIn)
        /\ convOut = convIn

\* C29 witness: class A, whose representative velocity 1500 is the very
\* boundary of the class, comes back as A.
ClassAThroughLegacyEntry ==
    /\ convOp = "legacy"
    /\ convIn = "A"
    /\ convMid = 1500
    /\ convOut = "A"

CityTransposed(name, province, latitude, longitude) ==
    [name |-> name, province |-> province, latitude |-> longitude, longitude |-> latitude]

\* An entry of MAJOR_CITIES; coordinates in 1e-5 degree.
City(name, province, latitude, longitude) ==
    [name |-> name, province |-> province, latitude |-> latitude, longitude |-> longitude]

\* The city catalog, in catalog order.
MAJOR_CITIES ==
    <<
       City("Vancouver", "BC", 4928270, -12312070),
       City("Calgary", "AB", 5104470, -11407190),
       City("Toronto", "ON", 4365320, -7938320),
       City("Montreal", "QC", 4550170, -7356730),
       City("Halifax", "NS", 4464880, -6357520),
       City("Ottawa", "ON", 4542150, -7569720),
       City("Quebec City", "QC", 4681390, -7120800),
       City("Winnipeg", "MB", 4989510, -9713840),
       City("Edmonton", "AB", 5354610, -11349380),
       City("Victoria", "BC", 4842840, -12336560),
       City("Saskatoon", "SK", 5213320, -10667000),
       City("Regina", "SK", 5044520, -10461890),
       City("Fredericton", "NB", 4596360, -6664310),
       City("Charlottetown", "PE", 4623820, -6313110),
       City("St. John's", "NL", 4756150, -5271260),
       City("Whitehorse", "YT", 6072120, -13505680),
       City("Yellowknife", "NT", 6245400, -11437180),
       City("Iqaluit", "NU", 6374670, -6851700)
    >>

\* MAJOR_CITIES of the resolver module (seismic-api.ts has a catalog of the
\* same name, kept above under that name).
RESOLVER_MAJOR_CITIES ==
    <<
       City("Toronto, ON", "Ontario", 4365320, -7938320),
       City("Montreal, QC", "Quebec", 4550170, -7356730),
       City("Vancouver, BC", "British Columbia", 4928270, -12312070),
       City("Calgary, AB", "Alberta", 5104470, -11407190),
       City("Edmonton, AB", "Alberta", 5354610, -11349380),
       City("Ottawa, ON", "Ontario", 4542150, -7569720),
       City("Winnipeg, MB", "Manitoba", 4989510, -9713840),
       City("Quebec City, QC", "Quebec", 4681390, -7120800),
       City("Hamilton, ON", "Ontario", 4325570, -7987110),
       City("Kitchener, ON", "Ontario", 4346430, -8052040),
       City("London, ON", "Ontario", 4298490, -8124530),
       City("Halifax, NS", "Nova Scotia", 4464880, -6357520),
       City("St. John's, NL", "Newfoundland and Labrador", 4756150, -5271260),
       City("Saskatoon, SK", "Saskatchewan", 5213320, -10667000),
       City("Regina, SK", "Saskatchewan", 5044520, -10461890),
       City("Charlottetown, PE", "Prince Edward Island", 4623820, -6313110),
       City("Fredericton, NB", "New Brunswick", 4596360, -6664310),
       City("Whitehorse, YT", "Yukon", 6072120, -13505680)
    >>

\* A value of the city fallback table: s holds PGA, Sa02, Sa10, Sa20, Sa50 in
\* thousandths; the probability level is in hundredths.
CityHazard(latitude, longitude, s, returnPeriod, probabilityLevel, siteClass) ==
    [latitude |-> latitude, longitude |-> longitude,
     PGA |-> s[1], Sa02 |-> s[2], Sa10 |-> s[3], Sa20 |-> s[4], Sa50 |-> s[5],
     returnPeriod |-> returnPeriod, probabilityLevel |-> probabilityLevel,
     siteClass |-> siteClass]

\* FALLBACK_SEISMIC_DATA of seismic-api.ts, a table keyed by city name (the
\* resolver module has a table of the same name, kept above under that name).
CITY_FALLBACK_SEISMIC_DATA ==
    (
       "Vancouver" :> CityHazard(4928270, -12312070, <<230, 650, 250, 150, 80>>, 2475, 2, "C") @@
       "Calgary" :> CityHazard(5104470, -11407190, <<30, 80, 30, 20, 10>>, 2475, 2, "C") @@
       "Toronto" :> CityHazard(4365320, -7938320, <<50, 120, 50, 30, 20>>, 2475, 2, "C") @@
       "Montreal" :> CityHazard(4550170, -7356730, <<180, 350, 150, 80, 40>>, 2475, 2, "C") @@
       "Ottawa" :> CityHazard(4542150, -7569720, <<180, 350, 150, 80, 40>>, 2475, 2, "C") @@
       "Quebec City" :> CityHazard(4681390, -7120800, <<220, 450, 200, 100, 50>>, 2475, 2, "C") @@
       "Halifax" :> CityHazard(4464880, -6357520, <<80, 180, 80, 40, 20>>, 2475, 2, "C") @@
       "Victoria" :> CityHazard(4842840, -12336560, <<270, 750, 300, 180, 100>>, 2475, 2, "C") @@
       "Winnipeg" :> CityHazard(4989510, -9713840, <<30, 80, 30, 20, 10>>, 2475, 2, "C") @@
       "Edmonton" :> CityHazard(5354610, -11349380, <<30, 80, 30, 20, 10>>, 2475, 2, "C")
    )

\* The square of a difference of coordinates as <<high, low>> with value
\* high * 10^8 + low and low < 10^8: Math.pow(d, 2).
MathPow2(d) ==
    LET a == IF d < 0 THEN 0 - d ELSE d
        a1 == a \div 10000
        a0 == a % 10000
        mid == 2 * a1 * a0
        low == (mid % 10000) * 10000 + a0 * a0
    IN  << a1 * a1 + mid \div 10000 + low \div 100000000, low % 100000000 >>

\* Math.pow(city.latitude - latitude, 2) + Math.pow(city.longitude - longitude, 2),
\* the argument of Math.sqrt.  Math.sqrt is increasing, so the distances
\* compare as their squares do.
DistanceSquared(city, latitude, longitude) ==
    LET p == MathPow2(city.latitude - latitude)
        q == MathPow2(city.longitude - longitude)
        low == p[2] + q[2]
    IN  << p[1] + q[1] + low \div 100000000, low % 100000000 >>

\* distance <= closestDistance.
DistanceAtMost(d, c) == d[1] < c[1] \/ (d[1] = c[1] /\ d[2] <= c[2])

\* distance < closestDistance.
DistanceLess(d, c) == d[1] < c[1] \/ (d[1] = c[1] /\ d[2] < c[2])

\* MAJOR_CITIES.reduce without an initial value: closest starts as the first
\* city and the callback runs from the second one on.
RECURSIVE ReduceClosestCity(_, _, _, _)
ReduceClosestCity(i, closest, latitude, longitude) ==
    IF i > Len(MAJOR_CITIES) THEN closest
    ELSE LET city == MAJOR_CITIES[i]
             distance == DistanceSquared(city, latitude, longitude)
             closestDistance == DistanceSquared(closest, latitude, longitude)
         IN  IF DistanceLess(distance, closestDistance)
             THEN ReduceClosestCity(i + 1, city, latitude, longitude)
             ELSE ReduceClosestCity(i + 1, closest, latitude, longitude)

closestCity(latitude, longitude) ==
    ReduceClosestCity(2, MAJOR_CITIES[1], latitude, longitude)

\* { location: `${closestCity.name}, ${closestCity.province} (Fallback)`, ...fallbackData }.
CityFallbackRecord(city) ==
    [location |-> <<city.name, city.province, "(Fallback)">>]
        @@ CITY_FALLBACK_SEISMIC_DATA[city.name]

\* Rows and columns of the grid of query points beyond the first.
GridRows == 8
GridColumns == 9

\* Points every 3 degrees of latitude from 42 N and every 10 degrees of
\* longitude from 140 W.
GridPoints ==
    { <<(42 + 3 * r) * CoordScale, (10 * c - 140) * CoordScale>> :
        r \in 0 .. GridRows, c \in 0 .. GridColumns }

\* The catalog cities themselves.
CityPoints ==
    { <<MAJOR_CITIES[i].latitude, MAJOR_CITIES[i].longitude>> : i \in DOMAIN MAJOR_CITIES }

\* Points at one distance from two catalog cities, both nearest: Vancouver
\* and Victoria, Vancouver and Whitehorse, Quebec City and Iqaluit.
TiePoints ==
    { <<4885555, -12324315>>, <<5500195, -12908875>>, <<5528030, -6986250>> }

ApiQueryPoints == GridPoints \cup CityPoints \cup TiePoints

\* What getSeismicHazard resolves with: data.seismicHazard, which is a record
\* of the service, or undefined (<<>>) when the response has no such field.
RemoteHazards(latitude, longitude) ==
    { <<>>,
      << [location |-> <<"remote">>, latitude |-> latitude, longitude |-> longitude,
          PGA |-> 200, Sa02 |-> 450, Sa10 |-> 120, Sa20 |-> 60, Sa50 |-> 20,
          returnPeriod |-> 2475, probabilityLevel |-> 2, siteClass |-> "C"] >> }

\* The call: the arguments are bound and getSeismicHazard is awaited.
ApiCall ==
    /\ apiPc = "idle"
    /\ \E p \in ApiQueryPoints :
          apiQuery' = [latitude |-> p[1], longitude |-> p[2]]
    /\ apiPc' = "await"
    /\ UNCHANGED <<apiRemote, apiCity, apiOutcome, apiResult>>
    /\ UNCHANGED <<coreVars, snowVars, windVars>>

\* getSeismicHazard resolves and its value is returned.
ApiResolves ==
    /\ apiPc = "await"
    /\ \E h \in RemoteHazards(apiQuery.latitude, apiQuery.longitude) :
          apiResult' = h
    /\ apiRemote' = "ok"
    /\ apiOutcome' = "resolved"
    /\ apiPc' = "done"
    /\ UNCHANGED <<apiQuery, apiCity>>
    /\ UNCHANGED <<coreVars, snowVars, windVars>>

\* getSeismicHazard rejects: the catch block picks the closest city and
\* returns its fallback entry, or throws when the table has none.
ApiFallback ==
    /\ apiPc = "await"
    /\ apiRemote' = "error"
    /\ LET city == closestCity(apiQuery.latitude, apiQuery.longitude)
       IN  /\ apiCity' = <<city>>
           /\ IF city.name \in DOMAIN CITY_FALLBACK_SEISMIC_DATA
              THEN /\ apiOutcome' = "resolved"
                   /\ apiResult' = << CityFallbackRecord(city) >>
              ELSE /\ apiOutcome' = "rejected"
                   /\ apiResult' = <<>>
    /\ apiPc' = "done"
    /\ UNCHANGED apiQuery
    /\ UNCHANGED <<coreVars, snowVars, windVars>>

ApiInit == ResolverInit /\ ConvIdle /\ CalcIdle /\ EngineIdle

ApiNext ==
    \/ ApiCall
    \/ ApiResolves
    \/ ApiFallback

SpecApi == ApiInit /\ [][ApiNext]_vars

\* ------------------------------------------------------------------------
\* Properties of getSeismicHazardWithFallback, under SpecApi.
\* ------------------------------------------------------------------------
\* The catalog position of a city.
CatalogIndex(city) == CHOOSE i \in DOMAIN MAJOR_CITIES : MAJOR_CITIES[i] = city

\* The square of the Euclidean distance in degree space from the query point.
QueryDistance(city) == DistanceSquared(city, apiQuery.latitude, apiQuery.longitude)

\* C11: when the remote call failed, the city the query was resolved to is
\* a catalog city at the least Euclidean distance from the query point, and
\* every catalog city at that same distance comes later in the catalog; a
\* returned record is labelled with that city.
ClosestCityFirstOnTies ==
    (apiPc = "done" /\ apiRemote = "error") =>
        /\ apiCity # <<>>
        /\ \E i \in DOMAIN MAJOR_CITIES : MAJOR_CITIES[i] = apiCity[1]
        /\ \A j \in DOMAIN MAJOR_CITIES :
              /\ DistanceAtMost(QueryDistance(apiCity[1]), QueryDistance(MAJOR_CITIES[j]))
              /\ QueryDistance(MAJOR_CITIES[j]) = QueryDistance(apiCity[1])
                    => CatalogIndex(apiCity[1]) <= j
        /\ apiOutcome = "resolved" =>
              apiResult[1].location = <<apiCity[1].name, apiCity[1].province, "(Fallback)">>

\* C11 witness: a failed call at the point half way between Vancouver and
\* Victoria was resolved to Vancouver, the earlier of the two in the catalog.
TieResolvedToVancouver ==
    /\ apiPc = "done" /\ apiRemote = "error"
    /\ apiQuery = [latitude |-> 4885555, longitude |-> -12324315]
    /\ QueryDistance(MAJOR_CITIES[1]) = QueryDistance(MAJOR_CITIES[10])
    /\ apiCity = << MAJOR_CITIES[1] >>
    /\ apiOutcome = "resolved"

\* The entry of a catalog at the place of a table value.
SamePlace(city, value) ==
    city.latitude = value.latitude /\ city.longitude = value.longitude

\* C23: every key of the city fallback table is the name of a MAJOR_CITIES
\* entry at the same coordinates, every record of the resolver's fallback
\* table carries the name and coordinates of an entry of the resolver's
\* MAJOR_CITIES, and a fallback record returned carries the coordinates of the
\* closest city it was looked up for.
FallbackKeysInCatalog ==
    /\ \A key \in DOMAIN CITY_FALLBACK_SEISMIC_DATA :
        \E i \in DOMAIN MAJOR_CITIES :
            /\ MAJOR_CITIES[i].name = key
            /\ SamePlace(MAJOR_CITIES[i], CITY_FALLBACK_SEISMIC_DATA[key])
    /\ \A j \in DOMAIN FALLBACK_SEISMIC_DATA :
        \E i \in DOMAIN RESOLVER_MAJOR_CITIES :
            /\ FALLBACK_SEISMIC_DATA[j].location = NameLabel(RESOLVER_MAJOR_CITIES[i].name)
            /\ SamePlace(RESOLVER_MAJOR_CITIES[i], FALLBACK_SEISMIC_DATA[j])
    /\ (apiPc = "done" /\ apiRemote = "error" /\ apiOutcome = "resolved") =>
        /\ apiResult[1].location[1] = apiCity[1].name
        /\ SamePlace(apiCity[1], apiResult[1])

\* C23 witness: the fallback record of Victoria, the last catalog city with
\* an entry, returned for a query at Victoria.
VictoriaFallbackReturned ==
    /\ apiPc = "done" /\ apiRemote = "error" /\ apiOutcome = "resolved"
    /\ apiCity = << MAJOR_CITIES[10] >>
    /\ apiResult[1].location[1] = "Victoria"
    /\ apiResult[1].latitude = 4842840 /\ apiResult[1].longitude = 0 - 12336560

\* C12: the call never ends rejected: a failed remote call is always
\* answered with a fallback record.
ApiNeverRejects ==
    /\ apiOutcome # "rejected"
    /\ (apiPc = "done" /\ apiRemote = "error") =>
          (apiOutcome = "resolved" /\ apiCity[1].name \in DOMAIN CITY_FALLBACK_SEISMIC_DATA)

\* ------------------------------------------------------------------------
\* The snow load calculator (SnowLoadCalculator).  Factors, kPa and the
\* building height are in units of 1 / Scale; lengths of the roof plan are
\* whole metres and the characteristic length is in millimetres.
\* ------------------------------------------------------------------------
\* The number n / d, for 0 <= n <= 200.
Num(n, d) == (n * Scale) \div d

\* NaN, the value of 0 / 0.
NaN == 0 - 2147483646

Categories == {"low", "normal", "high", "post-disaster"}

TerrainTypes == {"open", "rural", "exposed_north"}

\* importanceTable[importanceFactors.category].
calculateImportanceFactors(category) ==
    CASE category = "low" -> [uls |-> Num(80, 100), sls |-> Num(90, 100)]
      [] category = "normal" -> [uls |-> Num(100, 100), sls |-> Num(90, 100)]
      [] category = "high" -> [uls |-> Num(115, 100), sls |-> Num(90, 100)]
      [] category = "post-disaster" -> [uls |-> Num(125, 100), sls |-> Num(90, 100)]

\* Math.min(4.0, 0.43 * Ss + 2.2).
calculateSpecificWeightOfSnow(Ss) ==
    LET a == Num(4, 1)
        b == MulS(Num(43, 100), Ss) + Num(22, 10)
    IN  IF a <= b THEN a ELSE b

\* lc with the width taken for w and the length for l, whichever is smaller.
calculateCharacteristicLengthUnordered(roof) ==
    IF roof.length = 0 THEN NaN
    ELSE 2 * roof.width * 1000 - (roof.width * roof.width * 1000) \div roof.length

\* lc = 2w - w^2 / l, in millimetres; NaN for a plan of 0 by 0.
calculateCharacteristicLength(roof) ==
    LET w == IF roof.width <= roof.length THEN roof.width ELSE roof.length
        l == IF roof.width <= roof.length THEN roof.length ELSE roof.width
    IN  IF l = 0 THEN NaN ELSE 2 * w * 1000 - (w * w * 1000) \div l

\* 70 / (Cw * Cw), in millimetres (Cw is never 0).
CbThreshold(Cw) ==
    LET square == MulS(Cw, Cw)
    IN  IF square = 0 THEN 0 ELSE MulDiv(70 * 1000, Scale, square)

\* (1 / Cw) * (1 - (1 - 0.8 * Cw) * Math.exp(-(lc * Cw * Cw - 70) / 100)).
CbExponential(lc, Cw) ==
    LET over == MulS(MulS(lc, Cw), Cw) - 70 * 1000
        x == IF over < 0 THEN 0 ELSE MulDiv(over, Scale, 100 * 1000)
    IN  MulS(DivS(Scale, Cw),
             Scale - MulS(Scale - MulS(Num(8, 10), Cw), MathExpNeg(x)))

\* The height test with the comparison turned round.
HeightBelowCriticalReversed(height, Ss) ==
    height > Scale + DivS(Ss, calculateSpecificWeightOfSnow(Ss))

\* roofParams.height < (1 + Ss / gamma).
HeightBelowCritical(height, Ss) ==
    height < Scale + DivS(Ss, calculateSpecificWeightOfSnow(Ss))

\* No comparison with NaN holds, and the exponential of NaN is NaN.
calculateBasicRoofSnowLoadFactor(roof, Ss, lc, Cw) ==
    IF HeightBelowCritical(roof.height * Scale, Ss) THEN Num(1, 1)
    ELSE IF lc = NaN THEN NaN
    ELSE IF lc <= CbThreshold(Cw) THEN Num(8, 10)
    ELSE CbExponential(lc, Cw)

\* The wind exposure factor with the reduction granted to every category.
calculateWindExposureFactorAnyCategory(category, terrainType) ==
    IF terrainType = "rural" THEN Num(75, 100)
    ELSE IF terrainType = "exposed_north" THEN Num(5, 10)
    ELSE Num(1, 1)

calculateWindExposureFactor(category, terrainType) ==
    IF category = "low" \/ category = "normal"
    THEN IF terrainType = "rural" THEN Num(75, 100)
         ELSE IF terrainType = "exposed_north" THEN Num(5, 10)
         ELSE Num(1, 1)
    ELSE Num(1, 1)

\* The slope factor with the slippery provisions applied to every roof.
calculateSlopeFactorSlippery(alpha, isSlippery) ==
    IF alpha <= 15 THEN Num(1, 1)
    ELSE IF alpha <= 60 THEN Num(60 - alpha, 45)
    ELSE 0

\* The slope factor with the provisions of the two surfaces exchanged.
calculateSlopeFactorExchanged(alpha, isSlippery) ==
    IF ~isSlippery
    THEN IF alpha <= 15 THEN Num(1, 1)
         ELSE IF alpha <= 60 THEN Num(60 - alpha, 45)
         ELSE 0
    ELSE IF alpha <= 30 THEN Num(1, 1)
         ELSE IF alpha <= 70 THEN Num(70 - alpha, 40)
         ELSE 0

calculateSlopeFactor(alpha, isSlippery) ==
    IF isSlippery
    THEN IF alpha <= 15 THEN Num(1, 1)
         ELSE IF alpha <= 60 THEN Num(60 - alpha, 45)
         ELSE 0
    ELSE IF alpha <= 30 THEN Num(1, 1)
         ELSE IF alpha <= 70 THEN Num(70 - alpha, 40)
         ELSE 0

calculateAccumulationFactor == Num(1, 1)

\* Is * (Ss * (Cb * Cw * Cs * Ca) + Sr); Cb is the one factor that can be NaN,
\* and every product and sum with NaN is NaN.
SnowLoad(Is, Ss, Cb, Cw, Cs, Ca, Sr) ==
    IF Cb = NaN THEN NaN
    ELSE MulS(Is, MulS(Ss, MulS(MulS(MulS(Cb, Cw), Cs), Ca)) + Sr)

\* Roof slopes typed into the parameter form, in degrees.
Slopes == {0, 20, 30, 50, 60, 70, 80}

\* Plan dimensions and heights typed into the parameter form, in metres; a
\* field left empty gives 0.
PlanDimensions == {0, 70, 300}

Heights == {2, 6}

\* A row of the location table: ss and sr in kPa.
Locations == { [ss |-> Num(48, 10), sr |-> Num(7, 10)] }

\* What is typed into the custom fields: nothing, or a number.
GroundSnowLoads == { <<>>, << Num(11, 10) >> }

RainLoads == { <<>>, << Num(4, 10) >> }

\* parseFloat of a custom field holding a number.
parseFloat(field) == field[1]

\* The location selector (and the province selector, which clears it).
setSelectedLocation ==
    /\ step = 1
    /\ selectedLocation' \in { <<>> } \cup { <<l>> : l \in Locations }
    /\ UNCHANGED <<step, customLocation, roofParams, importanceFactors,
                   calculationFactors, snowLoadCases, showResults>>
    /\ UNCHANGED <<coreVars, apiVars, windVars>>

\* The custom ground snow load and rain load fields.
setCustomLocation ==
    /\ step = 1
    /\ \/ \E g \in GroundSnowLoads :
            customLocation' = [customLocation EXCEPT !.groundSnowLoad = g]
       \/ \E r \in RainLoads :
            customLocation' = [customLocation EXCEPT !.rainLoad = r]
    /\ UNCHANGED <<step, selectedLocation, roofParams, importanceFactors,
                   calculationFactors, snowLoadCases, showResults>>
    /\ UNCHANGED <<coreVars, apiVars, windVars>>

\* "Next: Set Parameters", disabled without a location.
NextSetParameters ==
    /\ step = 1
    /\ selectedLocation # <<>> \/ customLocation.groundSnowLoad # <<>>
    /\ step' = 2
    /\ UNCHANGED <<selectedLocation, customLocation, roofParams, importanceFactors,
                   calculationFactors, snowLoadCases, showResults>>
    /\ UNCHANGED <<coreVars, apiVars, windVars>>

\* "Back" of the parameter step.
BackToLocation ==
    /\ step = 2
    /\ step' = 1
    /\ UNCHANGED <<selectedLocation, customLocation, roofParams, importanceFactors,
                   calculationFactors, snowLoadCases, showResults>>
    /\ UNCHANGED <<coreVars, apiVars, windVars>>

\* The fields of the parameter form that feed roofParams.
setRoofParams ==
    /\ step = 2
    /\ \/ \E v \in PlanDimensions : roofParams' = [roofParams EXCEPT !.length = v]
       \/ \E v \in PlanDimensions : roofParams' = [roofParams EXCEPT !.width = v]
       \/ \E v \in Slopes : roofParams' = [roofParams EXCEPT !.slope = v]
       \/ \E v \in Heights : roofParams' = [roofParams EXCEPT !.height = v]
       \/ \E v \in TerrainTypes : roofParams' = [roofParams EXCEPT !.terrainType = v]
       \/ \E v \in BOOLEAN : roofParams' = [roofParams EXCEPT !.isSlippery = v]
    /\ UNCHANGED <<step, selectedLocation, customLocation, importanceFactors,
                   calculationFactors, snowLoadCases, showResults>>
    /\ UNCHANGED <<coreVars, apiVars, windVars>>

\* The importance category selector.
setImportanceFactors ==
    /\ step = 2
    /\ \E c \in Categories : importanceFactors' = [category |-> c]
    /\ UNCHANGED <<step, selectedLocation, customLocation, roofParams,
                   calculationFactors, snowLoadCases, showResults>>
    /\ UNCHANGED <<coreVars, apiVars, windVars>>

\* The factors and the two load cases calculateSnowLoads stores.
SnowCalculation ==
    LET Ss == IF selectedLocation # <<>> THEN selectedLocation[1].ss
              ELSE parseFloat(customLocation.groundSnowLoad)
        Sr == IF selectedLocation # <<>> THEN selectedLocation[1].sr
              ELSE IF customLocation.rainLoad # <<>>
                   THEN parseFloat(customLocation.rainLoad) ELSE 0
        Is == calculateImportanceFactors(importanceFactors.category)
        Cw == calculateWindExposureFactor(importanceFactors.category, roofParams.terrainType)
        lc == calculateCharacteristicLength(roofParams)
        Cb == calculateBasicRoofSnowLoadFactor(roofParams, Ss, lc, Cw)
        Cs == calculateSlopeFactor(roofParams.slope, roofParams.isSlippery)
        Ca == calculateAccumulationFactor
        gamma == calculateSpecificWeightOfSnow(Ss)
    IN  [factors |-> [Is_uls |-> Is.uls, Is_sls |-> Is.sls, Cb |-> Cb, Cw |-> Cw,
                      Cs |-> Cs, Ca |-> Ca, gamma |-> gamma, lc |-> lc,
                      roofShapeFactor |-> Ca],
         cases |-> << [id |-> "nbc-balanced-uls", designCase |-> "uls",
                       loadValue |-> SnowLoad(Is.uls, Ss, Cb, Cw, Cs, Ca, Sr)],
                      [id |-> "nbc-balanced-sls", designCase |-> "sls",
                       loadValue |-> SnowLoad(Is.sls, Ss, Cb, Cw, Cs, Ca, Sr)] >>]

\* "Calculate Snow Loads": calculateSnowLoads(), then setStep(3).
calculateSnowLoads ==
    /\ step = 2
    /\ IF selectedLocation = <<>> /\ customLocation.groundSnowLoad = <<>>
       THEN UNCHANGED <<calculationFactors, snowLoadCases, showResults>>
       ELSE LET calculation == SnowCalculation
            IN  /\ calculationFactors' = << calculation.factors >>
                /\ snowLoadCases' = calculation.cases
                /\ showResults' = TRUE
    /\ step' = 3
    /\ UNCHANGED <<selectedLocation, customLocation, roofParams, importanceFactors>>
    /\ UNCHANGED <<coreVars, apiVars, windVars>>

\* "New Calculation".
resetCalculator ==
    /\ step = 3 /\ showResults
    /\ step' = 1
    /\ selectedLocation' = <<>>
    /\ customLocation' = [groundSnowLoad |-> <<>>, rainLoad |-> <<>>]
    /\ roofParams' = [length |-> 20, width |-> 15, slope |-> 0, height |-> 6,
                      isSlippery |-> FALSE, terrainType |-> "open"]
    /\ importanceFactors' = [category |-> "normal"]
    /\ calculationFactors' = <<>>
    /\ snowLoadCases' = <<>>
    /\ showResults' = FALSE
    /\ UNCHANGED <<coreVars, apiVars, windVars>>

SnowInit == ResolverInit /\ ConvIdle /\ CalcIdle /\ EngineIdle

\* The wizard up to its results; "Back to Parameters" of the results step is
\* left out, so every result on display was computed from the inputs on display.
SnowNext ==
    \/ setSelectedLocation
    \/ setCustomLocation
    \/ NextSetParameters
    \/ BackToLocation
    \/ setRoofParams
    \/ setImportanceFactors
    \/ calculateSnowLoads
    \/ resetCalculator

SpecSnow == SnowInit /\ [][SnowNext]_vars

\* ------------------------------------------------------------------------
\* Properties of the snow load calculator, under SpecSnow.
\* ------------------------------------------------------------------------
\* The ground snow load and the rain load of the location on display.
UsedSs ==
    IF selectedLocation # <<>> THEN selectedLocation[1].ss
    ELSE customLocation.groundSnowLoad[1]

UsedSr ==
    IF selectedLocation # <<>> THEN selectedLocation[1].sr
    ELSE IF customLocation.rainLoad # <<>> THEN customLocation.rainLoad[1] ELSE 0

\* The importance table of the claim: <<Is_uls, Is_sls>> in hundredths.
ImportanceTable ==
    [c \in Categories |->
        CASE c = "low" -> <<80, 90>>
          [] c = "normal" -> <<100, 90>>
          [] c = "high" -> <<115, 90>>
          [] c = "post-disaster" -> <<125, 90>>]

\* C13: the results are two load cases, ULS then SLS, each
\* Is * [Ss * (Cb * Cw * Cs * Ca) + Sr] with Ca = 1.0 and Is_uls, Is_sls taken
\* from the importance table; when Cs is 0 they are Is_uls * Sr and Is_sls * Sr.
SnowLoadFormula ==
    showResults =>
        LET f == calculationFactors[1]
            snow == IF f.Cb = NaN THEN NaN
                    ELSE MulS(UsedSs, MulS(MulS(MulS(f.Cb, f.Cw), f.Cs), f.Ca))
            load == [Is \in {f.Is_uls, f.Is_sls} |->
                        IF snow = NaN THEN NaN ELSE MulS(Is, snow + UsedSr)]
        IN  /\ f.Ca = Scale
            /\ f.Is_uls = Num(ImportanceTable[importanceFactors.category][1], 100)
            /\ f.Is_sls = Num(ImportanceTable[importanceFactors.category][2], 100)
            /\ Len(snowLoadCases) = 2
            /\ snowLoadCases[1].designCase = "uls"
            /\ snowLoadCases[2].designCase = "sls"
            /\ snowLoadCases[1].loadValue = load[f.Is_uls]
            /\ snowLoadCases[2].loadValue = load[f.Is_sls]
            /\ f.Cs = 0 =>
                  /\ snowLoadCases[1].loadValue = MulS(f.Is_uls, UsedSr)
                  /\ snowLoadCases[2].loadValue = MulS(f.Is_sls, UsedSr)

\* C14: Cw is 0.75 for rural and 0.5 for exposed-north terrain only when the
\* category is low or normal; for high and post-disaster it is 1.0 on every
\* terrain, and on open terrain it is 1.0 for every category.
WindExposureReducedForLowAndNormalOnly ==
    showResults =>
        LET Cw == calculationFactors[1].Cw
            reduced == importanceFactors.category \in {"low", "normal"}
        IN  /\ (reduced /\ roofParams.terrainType = "rural") => Cw = Num(75, 100)
            /\ (reduced /\ roofParams.terrainType = "exposed_north") => Cw = Num(5, 10)
            /\ ~reduced => Cw = Scale
            /\ roofParams.terrainType = "open" => Cw = Scale

\* C14 witness: results for a post-disaster building on exposed-north terrain
\* with Cw = 1.0.
PostDisasterExposedNorthUnreduced ==
    /\ showResults
    /\ importanceFactors.category = "post-disaster"
    /\ roofParams.terrainType = "exposed_north"
    /\ calculationFactors[1].Cw = Scale

\* C15: Cs of a regular surface is 1.0 up to 30 degrees, (70 - slope) / 40 up
\* to 70 degrees and 0 beyond; Cs of a slippery surface is 1.0 up to 15
\* degrees, (60 - slope) / 45 up to 60 degrees and 0 beyond; so a regular
\* surface has Cs 1.0 at 30, 0.5 at 50 and 0 at 70 degrees.
SlopeFactorPiecewise ==
    showResults =>
        LET Cs == calculationFactors[1].Cs
            alpha == roofParams.slope
        IN  /\ ~roofParams.isSlippery =>
                  /\ alpha <= 30 => Cs = Scale
                  /\ (30 < alpha /\ alpha <= 70) =>
                        (40 * Cs <= (70 - alpha) * Scale /\ (70 - alpha) * Scale < 40 * (Cs + 1))
                  /\ alpha > 70 => Cs = 0
                  /\ alpha = 50 => Cs = Scale \div 2
                  /\ alpha = 70 => Cs = 0
            /\ roofParams.isSlippery =>
                  /\ alpha <= 15 => Cs = Scale
                  /\ (15 < alpha /\ alpha <= 60) =>
                        (45 * Cs <= (60 - alpha) * Scale /\ (60 - alpha) * Scale < 45 * (Cs + 1))
                  /\ alpha > 60 => Cs = 0

\* C15 witness: results for a regular roof at 50 degrees with Cs = 0.5.
RegularRoofAtFiftyDegrees ==
    /\ showResults
    /\ ~roofParams.isSlippery
    /\ roofParams.slope = 50
    /\ calculationFactors[1].Cs = Scale \div 2

\* The exponential branch of Cb at lc = 70 / Cw^2, for each Cw the code
\* produces.
CbAtThreshold ==
    [Cw \in {Num(1, 1), Num(75, 100), Num(5, 10)} |->
        CbExponential(CbThreshold(Cw), Cw)]

\* C16: at lc = 70 / Cw^2 the exponential branch of Cb gives the 0.8 of the
\* constant branch for the Cw in use (to a millionth; exactly, at lc = 70, for
\* Cw = 1.0), and Cb is 1.0 whenever height < 1 + Ss / gamma with
\* gamma = min(4.0, 0.43 * Ss + 2.2).
BasicRoofFactorContinuous ==
    showResults =>
        LET f == calculationFactors[1]
            atThreshold == CbAtThreshold[f.Cw]
            weight == MulS(Num(43, 100), UsedSs) + Num(22, 10)
        IN  /\ f.Cw \in DOMAIN CbAtThreshold
            /\ atThreshold - Num(8, 10) <= 10 /\ Num(8, 10) - atThreshold <= 10
            /\ f.Cw = Scale => atThreshold = Num(8, 10)
            /\ f.gamma = (IF Num(4, 1) <= weight THEN Num(4, 1) ELSE weight)
            /\ roofParams.height * f.gamma < f.gamma + UsedSs => f.Cb = Scale

\* C16 witness: results for a 70 m by 70 m roof (lc = 70) above the critical
\* height with Cw = 1.0: Cb is 0.8, and the exponential branch gives 0.8 there.
SquareRoofAtThreshold ==
    /\ showResults
    /\ calculationFactors[1].lc = 70 * 1000
    /\ calculationFactors[1].Cw = Scale
    /\ roofParams.height * calculationFactors[1].gamma >= calculationFactors[1].gamma + UsedSs
    /\ calculationFactors[1].Cb = Num(8, 10)
    /\ CbThreshold(Scale) = 70 * 1000
    /\ CbAtThreshold[Scale] = Num(8, 10)

\* C24: computing with the roof's length and width exchanged gives the lc,
\* the Cb and the two loads on display.
ExchangingPlanDimensionsChangesNothing ==
    (showResults /\ roofParams.length # roofParams.width) =>
        LET f == calculationFactors[1]
            exchanged == [roofParams EXCEPT !.length = roofParams.width,
                                            !.width = roofParams.length]
            lc == calculateCharacteristicLength(exchanged)
            Cb == calculateBasicRoofSnowLoadFactor(exchanged, UsedSs, lc, f.Cw)
        IN  /\ lc = f.lc
            /\ Cb = f.Cb
            /\ snowLoadCases[1].loadValue = SnowLoad(f.Is_uls, UsedSs, Cb, f.Cw, f.Cs, f.Ca, UsedSr)
            /\ snowLoadCases[2].loadValue = SnowLoad(f.Is_sls, UsedSs, Cb, f.Cw, f.Cs, f.Ca, UsedSr)

\* C24 witness: a roof longer in width than in length (70 m by 300 m), high
\* enough for Cb to come from lc = 2 * 70 - 70^2 / 300.
RoofWiderThanLong ==
    /\ showResults
    /\ roofParams.length = 70 /\ roofParams.width = 300
    /\ roofParams.height = 6
    /\ calculationFactors[1].lc = 2 * 70 * 1000 - (70 * 70 * 1000) \div 300
    /\ calculationFactors[1].Cb # Scale

\* The largest slope of the table below, in degrees.
MaxSlope == 90

\* Cs of every whole slope up to MaxSlope, for a slippery (TRUE) and a regular
\* (FALSE) surface.
SlopeFactorTable ==
    [isSlippery \in BOOLEAN |-> [alpha \in 0..MaxSlope |-> calculateSlopeFactor(alpha, isSlippery)]]

\* C30: 0 <= Cs(slope, slippery) <= Cs(slope, regular) <= 1 for every slope,
\* Cs never increases with the slope on either surface, and the Cs of every
\* calculation is the one of its slope and surface.
SlopeFactorMonotone ==
    /\ \A alpha \in 0..MaxSlope :
        /\ 0 <= SlopeFactorTable[TRUE][alpha]
        /\ SlopeFactorTable[TRUE][alpha] <= SlopeFactorTable[FALSE][alpha]
        /\ SlopeFactorTable[FALSE][alpha] <= Scale
        /\ \A isSlippery \in BOOLEAN :
            alpha < MaxSlope =>
                SlopeFactorTable[isSlippery][alpha + 1] <= SlopeFactorTable[isSlippery][alpha]
    /\ showResults =>
        calculationFactors[1].Cs = SlopeFactorTable[roofParams.isSlippery][roofParams.slope]

\* C30 witness: results for a slippery roof at 50 degrees, whose Cs (10 / 45)
\* is below the 0.5 of a regular roof at that slope.
SlipperyRoofBelowRegular ==
    /\ showResults
    /\ roofParams.isSlippery
    /\ roofParams.slope = 50
    /\ calculationFactors[1].Cs = Num(10, 45)
    /\ calculationFactors[1].Cs < calculateSlopeFactor(50, FALSE)

\* ------------------------------------------------------------------------
\* The wind load calculator (4.3).
\* ------------------------------------------------------------------------
\* alpha of each exposure category.
exposureCategories ==
    [A |-> [alpha |-> Num(15, 100)], B |-> [alpha |-> Num(20, 100)],
     C |-> [alpha |-> Num(28, 100)], D |-> [alpha |-> Num(40, 100)]]

Topographies == {"normal", "hill", "ridge", "escarpment"}
RoofTypes == {"flat", "gable", "hip", "shed"}

\* The coefficient table: six system-level entries, then five component ones.
\* Cp is in hundredths here and scaled where it is used.
pressureCoefficients ==
    << [surface |-> "Windward Wall", Cp |-> 80],
       [surface |-> "Leeward Wall", Cp |-> 0 - 50],
       [surface |-> "Side Wall", Cp |-> 0 - 70],
       [surface |-> "Flat Roof", Cp |-> 0 - 70],
       [surface |-> "Windward Roof", Cp |-> 0 - 90],
       [surface |-> "Leeward Roof", Cp |-> 0 - 50],
       [surface |-> "Wall Corner", Cp |-> 0 - 100],
       [surface |-> "Wall Interior", Cp |-> 0 - 60],
       [surface |-> "Roof Corner", Cp |-> 0 - 200],
       [surface |-> "Roof Edge", Cp |-> 0 - 120],
       [surface |-> "Roof Interior", Cp |-> 0 - 90] >>

\* Math.abs.
MathAbs(x) == IF x < 0 THEN 0 - x ELSE x

\* Math.pow(base, exponent) for base >= 0 and exponent > 0, through
\* exp(exponent * ln base); a base above 1 through its reciprocal.
MathPow(base, exponent) ==
    IF base = 0 THEN 0
    ELSE IF base <= Scale THEN MathExpNeg(MulS(exponent, MathLogNeg(base)))
    ELSE DivS(Scale, MathExpNeg(MulS(exponent, MathLogNeg(DivS(Scale, base)))))

\* Kz = (height / 10) ^ (2 alpha), height in metres.
VelocityPressureExposure(height, exposure) ==
    MathPow((height * Scale) \div 10, 2 * exposureCategories[exposure].alpha)

\* 1.15 for every topography, the normal one included.
TopographicFactorRaised(topography) == Num(115, 100)

\* Kzt.
TopographicFactor(topography) ==
    IF topography = "normal" THEN Num(1, 1) ELSE Num(115, 100)

\* q = 0.613 * Kz * Kzt * Kd * V^2 / 1000, in kN/m2; V in whole m/s.
calculateWindPressure(height, windSpeed, exposure) ==
    LET Kz == VelocityPressureExposure(height, exposure)
        Kzt == TopographicFactor(siteParams.topography)
        Kd == Num(85, 100)
        factor == MulS(MulS(MulS(MulDiv(613, Scale, 1000), Kz), Kzt), Kd)
    IN  MulDiv(factor, windSpeed * windSpeed, 1000)

\* qz * Cp, for Cp in hundredths of either sign.
SurfacePressure(qz, Cp) ==
    IF Cp < 0 THEN 0 - MulS(qz, Num(0 - Cp, 100)) ELSE MulS(qz, Num(Cp, 100))

\* pressure * area in units of 10^-5 kN, area in whole m2.
SurfaceForce(pressure, area) ==
    IF pressure < 0 THEN 0 - MulDiv(0 - pressure, area, 100)
    ELSE MulDiv(pressure, area, 100)

\* One entry of windResults.
WindLoadResult(id, surface, qz, Cp, area) ==
    [id |-> id, surface |-> surface, pressure |-> SurfacePressure(qz, Cp),
     force |-> SurfaceForce(SurfacePressure(qz, Cp), area), coefficient |-> Cp,
     area |-> area]

\* The roof coefficient of the system-level branch.
RoofCp(roofType) == IF roofType = "flat" THEN 0 - 70 ELSE 0 - 90

\* The surface name of the roof result.
RoofSurface == IF buildingGeom.roofType = "flat" THEN "Flat Roof" ELSE "Roof"

\* The system-level branch with the wall areas exchanged.
SystemResultsAreasExchanged(qz) ==
    LET wallArea == buildingGeom.length * buildingGeom.height
        endWallArea == buildingGeom.width * buildingGeom.height
        roofArea == buildingGeom.length * buildingGeom.width
        roofCp == RoofCp(buildingGeom.roofType)
    IN  << WindLoadResult(<<"windward">>, "Windward Wall", qz, 80, wallArea),
           WindLoadResult(<<"leeward">>, "Leeward Wall", qz, 0 - 50, wallArea),
           WindLoadResult(<<"sidewall1">>, "Side Wall 1", qz, 0 - 70, endWallArea),
           WindLoadResult(<<"sidewall2">>, "Side Wall 2", qz, 0 - 70, endWallArea),
           WindLoadResult(<<"roof">>, RoofSurface, qz, roofCp, roofArea) >>

\* The system-level (mwfrs) branch of calculateWindLoads.
SystemResults(qz) ==
    LET wallArea == buildingGeom.width * buildingGeom.height
        endWallArea == buildingGeom.length * buildingGeom.height
        roofArea == buildingGeom.length * buildingGeom.width
        roofCp == RoofCp(buildingGeom.roofType)
    IN  << WindLoadResult(<<"windward">>, "Windward Wall", qz, 80, wallArea),
           WindLoadResult(<<"leeward">>, "Leeward Wall", qz, 0 - 50, wallArea),
           WindLoadResult(<<"sidewall1">>, "Side Wall 1", qz, 0 - 70, endWallArea),
           WindLoadResult(<<"sidewall2">>, "Side Wall 2", qz, 0 - 70, endWallArea),
           WindLoadResult(<<"roof">>, RoofSurface, qz, roofCp, roofArea) >>

\* The whole coefficient table, nothing sliced off.
ComponentCoefficientsUnsliced == pressureCoefficients

\* pressureCoefficients.slice(6).
ComponentCoefficients == SubSeq(pressureCoefficients, 7, Len(pressureCoefficients))

\* The component-level (cc) branch of calculateWindLoads; ids are cc_0, cc_1, ...
ComponentResults(qz) ==
    LET effectiveArea == 10
    IN  [index \in 1..Len(ComponentCoefficients) |->
            WindLoadResult(<<"cc", index - 1>>, ComponentCoefficients[index].surface, qz,
                           ComponentCoefficients[index].Cp, effectiveArea)]

\* The wind speed calculateWindLoads uses.
WindSpeed ==
    IF windLocation # <<>> THEN windLocation[1].windSpeed ELSE customWind.windSpeed[1]

\* The results calculateWindLoads stores.
WindCalculation ==
    LET qz == calculateWindPressure(buildingGeom.height, WindSpeed, siteParams.exposure)
    IN  IF analysisType = "mwfrs" THEN SystemResults(qz) ELSE ComponentResults(qz)

\* The largest of a non-empty set of numbers.
MathMax(S) == CHOOSE x \in S : \A y \in S : y <= x

\* getMaxPressure, as the summary shows it (windResults is not empty there).
getMaxPressure == MathMax({MathAbs(windResults[i].pressure) : i \in DOMAIN windResults})

\* The force of the first result with the given id, 0 when there is none.
ForceOrZero(id) ==
    LET found == {i \in DOMAIN windResults : windResults[i].id = id}
    IN  IF found = {} THEN 0 ELSE windResults[MathMax({0 - i : i \in found}) * (0 - 1)].force

\* getTotalWindForce, as the summary shows it.
getTotalWindForce ==
    IF analysisType = "mwfrs"
    THEN ForceOrZero(<<"windward">>) + MathAbs(ForceOrZero(<<"leeward">>))
    ELSE MathMax({MathAbs(windResults[i].force) : i \in DOMAIN windResults})

\* Inputs: a city of the table, a custom site, and the workspace's fields.
WindCities == { [city |-> "Toronto", windSpeed |-> 30] }
CustomWinds ==
    { [location |-> <<>>, windSpeed |-> <<>>], [location |-> <<"Site">>, windSpeed |-> <<40>>] }
BuildingHeights == {10, 12}
PickedRoofTypes == {"flat", "hip"}
PickedTopographies == {"normal", "ridge"}

\* A city button of step 1.
WindSelectLocation ==
    /\ windStep = 1
    /\ \E location \in WindCities : windLocation' = <<location>>
    /\ windStep' = 2
    /\ UNCHANGED <<customWind, buildingGeom, siteParams, analysisType, windResults,
                   windShowResults>>
    /\ UNCHANGED <<coreVars, apiVars, snowVars>>

\* The custom location and wind speed fields.
setCustomWind ==
    /\ windStep = 1
    /\ \E typed \in CustomWinds : customWind' = typed
    /\ UNCHANGED <<windStep, windLocation, buildingGeom, siteParams, analysisType,
                   windResults, windShowResults>>
    /\ UNCHANGED <<coreVars, apiVars, snowVars>>

\* The button under the custom fields, enabled once both are filled in.
WindContinueCustom ==
    /\ windStep = 1
    /\ customWind.location # <<>> /\ customWind.windSpeed # <<>>
    /\ windStep' = 2
    /\ UNCHANGED <<windLocation, customWind, buildingGeom, siteParams, analysisType,
                   windResults, windShowResults>>
    /\ UNCHANGED <<coreVars, apiVars, snowVars>>

\* "Change Location".
WindChangeLocation ==
    /\ windStep = 2
    /\ windStep' = 1
    /\ windShowResults' = FALSE
    /\ UNCHANGED <<windLocation, customWind, buildingGeom, siteParams, analysisType,
                   windResults>>
    /\ UNCHANGED <<coreVars, apiVars, snowVars>>

\* The height field and the roof type selector; length and width keep the
\* 30 m and 20 m they start with.
setBuildingGeom ==
    /\ windStep = 2
    /\ \/ \E v \in BuildingHeights : buildingGeom' = [buildingGeom EXCEPT !.height = v]
       \/ \E v \in PickedRoofTypes : buildingGeom' = [buildingGeom EXCEPT !.roofType = v]
    /\ UNCHANGED <<windStep, windLocation, customWind, siteParams, analysisType,
                   windResults, windShowResults>>
    /\ UNCHANGED <<coreVars, apiVars, snowVars>>

\* The exposure and topography selectors.
setSiteParams ==
    /\ windStep = 2
    /\ \/ \E v \in DOMAIN exposureCategories : siteParams' = [siteParams EXCEPT !.exposure = v]
       \/ \E v \in PickedTopographies : siteParams' = [siteParams EXCEPT !.topography = v]
    /\ UNCHANGED <<windStep, windLocation, customWind, buildingGeom, analysisType,
                   windResults, windShowResults>>
    /\ UNCHANGED <<coreVars, apiVars, snowVars>>

\* The analysis type radio buttons.
setAnalysisType ==
    /\ windStep = 2
    /\ \E v \in {"mwfrs", "cc"} : analysisType' = v
    /\ UNCHANGED <<windStep, windLocation, customWind, buildingGeom, siteParams,
                   windResults, windShowResults>>
    /\ UNCHANGED <<coreVars, apiVars, snowVars>>

\* "Calculate Wind Loads".
calculateWindLoads ==
    /\ windStep = 2
    /\ IF windLocation = <<>> /\ customWind.windSpeed = <<>>
       THEN UNCHANGED <<windResults, windShowResults>>
       ELSE /\ windResults' = WindCalculation
            /\ windShowResults' = TRUE
    /\ UNCHANGED <<windStep, windLocation, customWind, buildingGeom, siteParams,
                   analysisType>>
    /\ UNCHANGED <<coreVars, apiVars, snowVars>>

WindInit == ResolverInit /\ ConvIdle /\ CalcIdle /\ EngineIdle

WindNext ==
    \/ WindSelectLocation
    \/ setCustomWind
    \/ WindContinueCustom
    \/ WindChangeLocation
    \/ setBuildingGeom
    \/ setSiteParams
    \/ setAnalysisType
    \/ calculateWindLoads

SpecWind == WindInit /\ [][WindNext]_vars

\* ------------------------------------------------------------------------
\* Properties of the wind load calculator, under SpecWind.
\* ------------------------------------------------------------------------
\* A step of calculateWindLoads that stores results.
WindCalculated ==
    /\ windStep = 2 /\ windStep' = 2
    /\ windLocation # <<>> \/ customWind.windSpeed # <<>>
    /\ windShowResults'
    /\ UNCHANGED <<windLocation, customWind, buildingGeom, siteParams, analysisType>>
    /\ ~windShowResults \/ windResults' # windResults

\* n / d as a fixed-point number, for n up to 10000.
Ratio(n, d) == MulDiv(n, Scale, d)

\* q written out from the inputs of the step.
ClaimedVelocityPressure ==
    LET Kz == VelocityPressureExposure(buildingGeom.height, siteParams.exposure)
        Kzt == IF siteParams.topography = "normal" THEN Num(1, 1) ELSE Num(115, 100)
    IN  MulDiv(MulS(MulS(MulS(Ratio(613, 1000), Kz), Kzt), Num(85, 100)),
               WindSpeed * WindSpeed, 1000)

\* C17: every calculation uses q = 0.613 * Kz * Kzt * 0.85 * V^2 / 1000 with
\* Kzt = 1.0 for normal and 1.15 for every other topography and Kz = 1 at 10 m
\* for every exposure; with exposure B, 10 m, 30 m/s and normal topography q is
\* 0.469 and the windward pressure 0.375 to three decimals.
VelocityPressureFormula ==
    [][WindCalculated =>
        LET q == ClaimedVelocityPressure
            first == windResults'[1]
        IN  /\ \A e \in DOMAIN exposureCategories : VelocityPressureExposure(10, e) = Scale
            /\ \A t \in Topographies \ {"normal"} : TopographicFactor(t) = Num(115, 100)
            /\ TopographicFactor("normal") = Scale
            /\ first.pressure = SurfacePressure(q, first.coefficient)
            /\ (/\ siteParams.exposure = "B" /\ siteParams.topography = "normal"
                /\ buildingGeom.height = 10 /\ WindSpeed = 30)
               => /\ Ratio(4685, 10000) <= q /\ q < Ratio(4695, 10000)
                  /\ analysisType = "mwfrs" =>
                        /\ first.coefficient = 80
                        /\ Ratio(3745, 10000) <= first.pressure
                        /\ first.pressure < Ratio(3755, 10000)]_vars

\* C17 witness: the windward wall of a 10 m building in Toronto, exposure B,
\* normal topography, shows 0.375 kN/m2.
WindwardPressureOfExample ==
    /\ windShowResults
    /\ windLocation = <<[city |-> "Toronto", windSpeed |-> 30]>>
    /\ siteParams.exposure = "B" /\ siteParams.topography = "normal"
    /\ buildingGeom.height = 10
    /\ windResults # <<>>
    /\ windResults[1].id = <<"windward">>
    /\ Ratio(3745, 10000) <= windResults[1].pressure
    /\ windResults[1].pressure < Ratio(3755, 10000)

\* C18: a system-level calculation stores five results: windward wall, leeward
\* wall, side wall 1, side wall 2, roof, with Cp 0.8, -0.5, -0.7, -0.7 and -0.7
\* (flat roof) or -0.9 (any other roof), pressure q * Cp and force pressure *
\* area, the areas being width * height twice, length * height twice and
\* length * width.
SystemLevelResults ==
    [][(WindCalculated /\ analysisType = "mwfrs") =>
        LET q == calculateWindPressure(buildingGeom.height, WindSpeed, siteParams.exposure)
            ids == << <<"windward">>, <<"leeward">>, <<"sidewall1">>, <<"sidewall2">>, <<"roof">> >>
            roof == IF buildingGeom.roofType = "flat" THEN 0 - 70 ELSE 0 - 90
            Cps == <<80, 0 - 50, 0 - 70, 0 - 70, roof>>
            areas == << buildingGeom.width * buildingGeom.height,
                        buildingGeom.width * buildingGeom.height,
                        buildingGeom.length * buildingGeom.height,
                        buildingGeom.length * buildingGeom.height,
                        buildingGeom.length * buildingGeom.width >>
        IN  /\ Len(windResults') = 5
            /\ \A i \in 1..5 :
                /\ windResults'[i].id = ids[i]
                /\ windResults'[i].coefficient = Cps[i]
                /\ windResults'[i].area = areas[i]
                /\ windResults'[i].pressure = SurfacePressure(q, Cps[i])
                /\ windResults'[i].force = SurfaceForce(windResults'[i].pressure, areas[i])]_vars

\* C18 witness: the five results of a hip-roofed 30 m by 20 m building, its
\* roof at Cp = -0.9 over 600 m2.
HipRoofSystemResults ==
    /\ windShowResults
    /\ buildingGeom.roofType = "hip"
    /\ Len(windResults) = 5
    /\ windResults[5].id = <<"roof">>
    /\ windResults[5].coefficient = 0 - 90
    /\ windResults[5].area = 600
    /\ windResults[5].force < 0

\* C19: a component-level calculation stores one result for each entry of the
\* coefficient table after the first six, in table order: five results, each
\* with pressure q * Cp and force pressure * 10 over the area of 10 m2.
ComponentLevelResults ==
    [][(WindCalculated /\ analysisType = "cc") =>
        LET q == calculateWindPressure(buildingGeom.height, WindSpeed, siteParams.exposure)
            systemSurfaces == {pressureCoefficients[i].surface : i \in 1..6}
        IN  /\ Len(windResults') = Len(pressureCoefficients) - 6
            /\ Len(windResults') = 5
            /\ \A i \in 1..Len(windResults') :
                /\ windResults'[i].id = <<"cc", i - 1>>
                /\ windResults'[i].surface = pressureCoefficients[6 + i].surface
                /\ windResults'[i].surface \notin systemSurfaces
                /\ windResults'[i].coefficient = pressureCoefficients[6 + i].Cp
                /\ windResults'[i].area = 10
                /\ windResults'[i].pressure = SurfacePressure(q, pressureCoefficients[6 + i].Cp)
                /\ windResults'[i].force = SurfaceForce(windResults'[i].pressure, 10)]_vars

\* C19 witness: component results on display, from wall corner to roof
\* interior.
ComponentResultsShown ==
    /\ windShowResults
    /\ Len(windResults) = 5
    /\ windResults[1].surface = "Wall Corner"
    /\ windResults[3].coefficient = 0 - 200
    /\ windResults[5].surface = "Roof Interior"
    /\ windResults[3].pressure < 0

\* C20: for the results on display the maximum pressure is the largest
\* |pressure|, and the total force is windward + |leeward| when the results
\* are system-level ones and the largest |force| when they are component ones.
WindAggregates ==
    (windShowResults /\ windResults # <<>>) =>
        LET all == DOMAIN windResults
            systemLevel == windResults[1].id = <<"windward">>
        IN  /\ \A i \in all : MathAbs(windResults[i].pressure) <= getMaxPressure
            /\ \E i \in all : MathAbs(windResults[i].pressure) = getMaxPressure
            /\ systemLevel =>
                  getTotalWindForce = windResults[1].force + MathAbs(windResults[2].force)
            /\ ~systemLevel =>
                  /\ \A i \in all : MathAbs(windResults[i].force) <= getTotalWindForce
                  /\ \E i \in all : MathAbs(windResults[i].force) = getTotalWindForce

\* The mode the results on display were computed in: only a system-level
\* calculation stores a windward result.
ResultsComputedIn ==
    IF \E i \in DOMAIN windResults : windResults[i].id = <<"windward">> THEN "mwfrs" ELSE "cc"

\* C27: whatever calculations and mode changes came before, the total force
\* on display is the aggregate of the mode its results were computed in.
TotalForceOfResultsMode ==
    (windShowResults /\ windResults # <<>>) =>
        getTotalWindForce =
            IF ResultsComputedIn = "mwfrs"
            THEN ForceOrZero(<<"windward">>) + MathAbs(ForceOrZero(<<"leeward">>))
            ELSE MathMax({MathAbs(windResults[i].force) : i \in DOMAIN windResults})

\* ------------------------------------------------------------------------
\* The seismic wizard: the calculator fed by the hazard resolver.
\* ------------------------------------------------------------------------
\* structuralSystems, by name: Rd and Ro in tenths.
structuralSystems ==
    [name \in {"Steel Moment Frame - Ductile", "Steel Moment Frame - Limited Ductility",
               "Steel Braced Frame - Ductile", "Steel Braced Frame - Limited Ductility",
               "RC Moment Frame - Ductile", "RC Shear Wall - Ductile",
               "RC Shear Wall - Moderate Ductility", "Wood Frame - Conventional",
               "Wood Shear Wall", "Masonry Shear Wall - Ductile",
               "Unreinforced Masonry"} |->
        CASE name = "Steel Moment Frame - Ductile" -> [Rd |-> 50, Ro |-> 15]
          [] name = "Steel Moment Frame - Limited Ductility" -> [Rd |-> 35, Ro |-> 13]
          [] name = "Steel Braced Frame - Ductile" -> [Rd |-> 40, Ro |-> 15]
          [] name = "Steel Braced Frame - Limited Ductility" -> [Rd |-> 20, Ro |-> 13]
          [] name = "RC Moment Frame - Ductile" -> [Rd |-> 40, Ro |-> 16]
          [] name = "RC Shear Wall - Ductile" -> [Rd |-> 35, Ro |-> 16]
          [] name = "RC Shear Wall - Moderate Ductility" -> [Rd |-> 20, Ro |-> 14]
          [] name = "Wood Frame - Conventional" -> [Rd |-> 30, Ro |-> 17]
          [] name = "Wood Shear Wall" -> [Rd |-> 20, Ro |-> 15]
          [] name = "Masonry Shear Wall - Ductile" -> [Rd |-> 20, Ro |-> 15]
          [] OTHER -> [Rd |-> 10, Ro |-> 10]]

\* Fa with the entry of class C taken for class D as well.
FaFlatAtD(siteClass) ==
    CASE siteClass = "A" -> Num(8, 10)
      [] siteClass = "B" -> Num(10, 10)
      [] siteClass = "C" -> Num(12, 10)
      [] siteClass = "D" -> Num(12, 10)
      [] siteClass = "E" -> Num(25, 10)
      [] OTHER -> Num(35, 10)

\* Fa of the wizard.
Fa(siteClass) ==
    CASE siteClass = "A" -> Num(8, 10)
      [] siteClass = "B" -> Num(10, 10)
      [] siteClass = "C" -> Num(12, 10)
      [] siteClass = "D" -> Num(16, 10)
      [] siteClass = "E" -> Num(25, 10)
      [] OTHER -> Num(35, 10)

\* Fv of the wizard.
Fv(siteClass) ==
    CASE siteClass = "A" -> Num(8, 10)
      [] siteClass = "B" -> Num(10, 10)
      [] siteClass = "C" -> Num(18, 10)
      [] siteClass = "D" -> Num(24, 10)
      [] siteClass = "E" -> Num(35, 10)
      [] OTHER -> Num(35, 10)

\* Ie of the wizard.
Ie(importance) ==
    CASE importance = "Low" -> Num(8, 10)
      [] importance = "Normal" -> Num(10, 10)
      [] importance = "High" -> Num(13, 10)
      [] OTHER -> Num(15, 10)

\* A spectral value of a record (thousandths of g) as a number.
Spectral(field) == field[1] * (Scale \div 1000)

\* (2 / 3) * F * Sa.
DesignAcceleration(F, Sa) == MulS(MulS(Num(2, 3), F), Sa)

\* (Sa * Ie * weight) / (Rd * Ro) in thousandths of a kN; weight in whole kN.
ShearOf(Sa, importanceFactor, weight, system) ==
    MulDiv(MulS(Sa, importanceFactor), weight * 1000,
           MulS(Num(system.Rd, 10), Num(system.Ro, 10)))

\* Vmin with the floor left out.
MinimumBaseShearUnfloored(SaDesign10, importanceFactor, weight, system) ==
    ShearOf(SaDesign10, importanceFactor, weight, system)

\* Vmin = Math.max(0.005 * weight, (SaDesign10 * Ie * weight) / (Rd * Ro)).
MinimumBaseShear(SaDesign10, importanceFactor, weight, system) ==
    MathMax({5 * weight, ShearOf(SaDesign10, importanceFactor, weight, system)})

\* One entry of seismicResults.
SeismicResult(parameter, value) == [parameter |-> parameter, value |-> value]

\* The results calculateSeismicLoads pushes for a record and parameters; the
\* base shear in thousandths of a kN.
SeismicCalculation(record, params) ==
    LET selectedSystem == structuralSystems[params.structuralSystem]
        SaDesign02 == DesignAcceleration(Fa(params.siteClass), Spectral(record.sa0p2))
        SaDesign10 == DesignAcceleration(Fv(params.siteClass), Spectral(record.sa1p0))
        importanceFactor == Ie(params.importance)
        Ta == MulS(Num(1, 10), MathPow(params.height * Scale, Num(75, 100)))
        V == ShearOf(SaDesign02, importanceFactor, params.weight, selectedSystem)
        Vmin == MinimumBaseShear(SaDesign10, importanceFactor, params.weight,
                                 selectedSystem)
        VDesign == MathMax({V, Vmin})
    IN  << SeismicResult("Site-Modified Spectral Acceleration (0.2s)", SaDesign02),
           SeismicResult("Site-Modified Spectral Acceleration (1.0s)", SaDesign10),
           SeismicResult("Fundamental Period", Ta),
           SeismicResult("Importance Factor", importanceFactor),
           SeismicResult("Base Shear", VDesign) >>

\* Site classes, importance categories, and weights with systems picked.
PickedSiteClasses == {"C", "E"}
PickedImportances == {"Normal", "High"}
PickedDetails ==
    { [weight |-> 10000, structuralSystem |-> "Steel Moment Frame - Ductile"],
      [weight |-> 10000, structuralSystem |-> "Unreinforced Masonry"],
      [weight |-> 0, structuralSystem |-> "Unreinforced Masonry"] }

\* Spectral values the resolver answers with: those of a site of low hazard,
\* where each of V, the long-period term and the floor governs for some of the
\* parameters picked.
PickedSpectra == { <<15, 10, 25, 28, 30, 27, 24, 21, 9, 3, 1>> }

\* The record the resolver hands back for a place and a site class.
ResolvedRecord(s, siteClass) ==
    HazardRecord("Ottawa, ON", 4542150, -7569720, s, 2475, siteClass,
                 getVs30FromSiteClass(siteClass), <<>>)

\* The site class the action resolves for: `formData.get("siteClass") || "C"`.
ActionSiteClass == IF formSiteClass = <<>> THEN "C" ELSE formSiteClass[1]

\* The site class of the loader's records: vs30 is "760" unless the URL says
\* otherwise, and the legacy entry point turns it into a site class.
LoaderSiteClass == getSiteClassFromVs30(760)

\* The page is mounted: without coordinates in the URL the loader hands over
\* nothing, with them the records resolved for its vs30.
WizardInit ==
    /\ seismicData \in
          { <<>> } \cup { << <<ResolvedRecord(s, LoaderSiteClass)>> >> : s \in PickedSpectra }
    /\ actionData = <<>>
    /\ currentSeismicData =
          IF seismicData # <<>> /\ Len(seismicData[1]) > 0
          THEN << seismicData[1][1] >> ELSE <<>>
    /\ isLoading = FALSE
    /\ submitted = FALSE
    /\ loaderEffectDue = TRUE
    /\ actionEffectDue = TRUE
    /\ ResolverInit
    /\ ConvIdle
    /\ EngineIdle

\* The page takes an event of the user: the effects have run and the loading
\* overlay does not cover it.
Interactive == ~loaderEffectDue /\ ~actionEffectDue /\ ~isLoading

\* The importance select of step 1.
setImportance ==
    /\ Interactive /\ wizardStep = 1
    /\ \E importance \in PickedImportances :
          buildingParams' = [buildingParams EXCEPT !.importance = importance]
    /\ UNCHANGED <<wizardStep, selectedCity, seismicLocation, addressSearch, geocoding,
                   formSiteClass, seismicResults>>
    /\ UNCHANGED <<calcVars, tableVars, otherVars>>

\* The site-class select of step 1: the parameter changes, nothing is fetched.
setSiteClass ==
    /\ Interactive /\ wizardStep = 1
    /\ \E siteClass \in PickedSiteClasses :
          buildingParams' = [buildingParams EXCEPT !.siteClass = siteClass]
    /\ UNCHANGED <<wizardStep, selectedCity, seismicLocation, addressSearch, geocoding,
                   formSiteClass, seismicResults>>
    /\ UNCHANGED <<calcVars, tableVars, otherVars>>

\* "Next: Select Location".
NextSelectLocation ==
    /\ Interactive /\ wizardStep = 1
    /\ wizardStep' = 2
    /\ UNCHANGED <<selectedCity, seismicLocation, addressSearch, geocoding,
                   buildingParams, formSiteClass, seismicResults>>
    /\ UNCHANGED <<calcVars, tableVars, otherVars>>

\* handleCitySelect, fetchSeismicData included.
handleCitySelect ==
    /\ Interactive /\ wizardStep = 2
    /\ selectedCity' = <<"Ottawa">>
    /\ seismicLocation' = [latitude |-> <<>>, longitude |-> <<>>]
    /\ addressSearch' = ""
    /\ isLoading' = TRUE
    /\ formSiteClass' = <<buildingParams.siteClass>>
    /\ submitted' = TRUE
    /\ UNCHANGED <<wizardStep, geocoding, buildingParams, seismicResults>>
    /\ UNCHANGED <<seismicData, actionData, currentSeismicData, loaderEffectDue,
                   actionEffectDue>>
    /\ UNCHANGED <<tableVars, otherVars>>

\* handleAddressInputChange: a text is typed; the suggestion list is not kept.
handleAddressInputChange ==
    /\ Interactive /\ wizardStep = 2
    /\ \E value \in {"Ottawa"} : addressSearch' = value
    /\ UNCHANGED <<wizardStep, selectedCity, seismicLocation, geocoding,
                   buildingParams, formSiteClass, seismicResults>>
    /\ UNCHANGED <<calcVars, tableVars, otherVars>>

\* handleSuggestionSelect on a suggestion of the text typed, fetchSeismicData
\* included.
handleSuggestionSelect ==
    /\ Interactive /\ wizardStep = 2
    /\ addressSearch # ""
    /\ addressSearch' = "Ottawa"
    /\ seismicLocation' = [latitude |-> <<4542150>>, longitude |-> <<-7569720>>]
    /\ selectedCity' = <<>>
    /\ isLoading' = TRUE
    /\ formSiteClass' = <<buildingParams.siteClass>>
    /\ submitted' = TRUE
    /\ UNCHANGED <<wizardStep, geocoding, buildingParams, seismicResults>>
    /\ UNCHANGED <<seismicData, actionData, currentSeismicData, loaderEffectDue,
                   actionEffectDue>>
    /\ UNCHANGED <<tableVars, otherVars>>

\* handleAddressSearch up to its await: the flag is raised and geocodeAddress
\* is called.
handleAddressSearch ==
    /\ Interactive /\ wizardStep = 2
    /\ addressSearch # ""
    /\ isLoading' = TRUE
    /\ geocoding' = TRUE
    /\ UNCHANGED <<wizardStep, selectedCity, seismicLocation, addressSearch,
                   buildingParams, formSiteClass, seismicResults>>
    /\ UNCHANGED <<seismicData, actionData, currentSeismicData, submitted,
                   loaderEffectDue, actionEffectDue>>
    /\ UNCHANGED <<tableVars, otherVars>>

\* handleAddressSearch after its await. With a result the location is taken
\* and fetchSeismicData submits; without one, or on an error, there is an
\* alert. The finally block lowers the flag in each case, after
\* fetchSeismicData has raised it.
AddressSearchResumes ==
    /\ geocoding
    /\ geocoding' = FALSE
    /\ \E found \in BOOLEAN :
          IF found
          THEN /\ seismicLocation' = [latitude |-> <<4542150>>, longitude |-> <<-7569720>>]
               /\ selectedCity' = <<>>
               /\ formSiteClass' = <<buildingParams.siteClass>>
               /\ submitted' = TRUE
          ELSE UNCHANGED <<seismicLocation, selectedCity, formSiteClass, submitted>>
    /\ isLoading' = FALSE
    /\ UNCHANGED <<wizardStep, addressSearch, buildingParams, seismicResults>>
    /\ UNCHANGED <<seismicData, actionData, currentSeismicData, loaderEffectDue,
                   actionEffectDue>>
    /\ UNCHANGED <<tableVars, otherVars>>

\* The latitude and longitude fields of the manual form.
setCoordinates ==
    /\ Interactive /\ wizardStep = 2
    /\ \E typed \in { [latitude |-> <<4542150>>, longitude |-> <<-7569720>>] } :
          seismicLocation' = typed
    /\ UNCHANGED <<wizardStep, selectedCity, addressSearch, geocoding,
                   buildingParams, formSiteClass, seismicResults>>
    /\ UNCHANGED <<calcVars, tableVars, otherVars>>

\* The manual form is submitted: onSubmit raises the flag and fills a
\* FormData of its own, and the form posts its fields (intent, name,
\* latitude, longitude), siteClass not among them.
SubmitCoordinates ==
    /\ Interactive /\ wizardStep = 2
    /\ seismicLocation.latitude # <<>> /\ seismicLocation.longitude # <<>>
    /\ isLoading' = TRUE
    /\ formSiteClass' = <<>>
    /\ submitted' = TRUE
    /\ UNCHANGED <<wizardStep, selectedCity, seismicLocation, addressSearch, geocoding,
                   buildingParams, seismicResults>>
    /\ UNCHANGED <<seismicData, actionData, currentSeismicData, loaderEffectDue,
                   actionEffectDue>>
    /\ UNCHANGED <<tableVars, otherVars>>

\* The action answers the submission: the records resolved for its site
\* class, or the error of a resolver that threw.
ActionAnswers ==
    /\ submitted
    /\ \E answer \in
            { [seismicData |-> << <<ResolvedRecord(s, ActionSiteClass)>> >>,
               error |-> <<>>] : s \in PickedSpectra }
            \cup { [seismicData |-> <<>>, error |-> <<"Failed to fetch seismic data">>] } :
          actionData' = <<answer>>
    /\ submitted' = FALSE
    /\ actionEffectDue' = TRUE
    /\ UNCHANGED <<seismicData, currentSeismicData, isLoading, loaderEffectDue>>
    /\ UNCHANGED <<wizardVars, tableVars, otherVars>>

\* "Back" of step 2.
BackToParameters ==
    /\ Interactive /\ wizardStep = 2
    /\ wizardStep' = 1
    /\ UNCHANGED <<selectedCity, seismicLocation, addressSearch, geocoding,
                   buildingParams, formSiteClass, seismicResults>>
    /\ UNCHANGED <<calcVars, tableVars, otherVars>>

\* "Next: Building Details", disabled without a record.
NextBuildingDetails ==
    /\ Interactive /\ wizardStep = 2
    /\ currentSeismicData # <<>>
    /\ wizardStep' = 3
    /\ UNCHANGED <<selectedCity, seismicLocation, addressSearch, geocoding,
                   buildingParams, formSiteClass, seismicResults>>
    /\ UNCHANGED <<calcVars, tableVars, otherVars>>

\* The weight field and the system select of step 3.
setBuildingDetails ==
    /\ Interactive /\ wizardStep = 3
    /\ \E details \in PickedDetails :
          buildingParams' =
              [buildingParams EXCEPT !.weight = details.weight,
                                     !.structuralSystem = details.structuralSystem]
    /\ UNCHANGED <<wizardStep, selectedCity, seismicLocation, addressSearch, geocoding,
                   formSiteClass, seismicResults>>
    /\ UNCHANGED <<calcVars, tableVars, otherVars>>

\* The two irregularity checkboxes of step 3.
setIrregularities ==
    /\ Interactive /\ wizardStep = 3
    /\ \E vertical \in BOOLEAN, horizontal \in BOOLEAN :
          buildingParams' =
              [buildingParams EXCEPT !.irregularities =
                  [vertical |-> vertical, horizontal |-> horizontal]]
    /\ UNCHANGED <<wizardStep, selectedCity, seismicLocation, addressSearch, geocoding,
                   formSiteClass, seismicResults>>
    /\ UNCHANGED <<calcVars, tableVars, otherVars>>

\* "Back" of step 3.
BackToLocationStep ==
    /\ Interactive /\ wizardStep = 3
    /\ wizardStep' = 2
    /\ UNCHANGED <<selectedCity, seismicLocation, addressSearch, geocoding,
                   buildingParams, formSiteClass, seismicResults>>
    /\ UNCHANGED <<calcVars, tableVars, otherVars>>

\* calculateSeismicLoads; without a record it returns at once.
calculateSeismicLoads ==
    /\ Interactive /\ wizardStep = 3
    /\ IF currentSeismicData = <<>>
       THEN UNCHANGED <<seismicResults, wizardStep>>
       ELSE /\ seismicResults' = SeismicCalculation(currentSeismicData[1], buildingParams)
            /\ wizardStep' = 4
    /\ UNCHANGED <<selectedCity, seismicLocation, addressSearch, geocoding,
                   buildingParams, formSiteClass>>
    /\ UNCHANGED <<calcVars, tableVars, otherVars>>

\* resetCalculator of the wizard: buildingParams is kept.
resetSeismicCalculator ==
    /\ Interactive /\ wizardStep = 4
    /\ wizardStep' = 1
    /\ selectedCity' = <<>>
    /\ seismicLocation' = [latitude |-> <<>>, longitude |-> <<>>]
    /\ addressSearch' = ""
    /\ currentSeismicData' = <<>>
    /\ seismicResults' = <<>>
    /\ isLoading' = FALSE
    /\ UNCHANGED <<geocoding, buildingParams, formSiteClass>>
    /\ UNCHANGED <<seismicData, actionData, submitted, loaderEffectDue, actionEffectDue>>
    /\ UNCHANGED <<tableVars, otherVars>>

\* The steps of the wizard. "Back" of step 4, which shows step 3 again with
\* the results kept out of sight, is not among them.
WizardNext ==
    \/ LoaderDataEffect
    \/ ActionDataEffect
    \/ setImportance
    \/ setSiteClass
    \/ NextSelectLocation
    \/ handleCitySelect
    \/ handleAddressInputChange
    \/ handleSuggestionSelect
    \/ handleAddressSearch
    \/ AddressSearchResumes
    \/ setCoordinates
    \/ SubmitCoordinates
    \/ ActionAnswers
    \/ BackToParameters
    \/ NextBuildingDetails
    \/ setBuildingDetails
    \/ setIrregularities
    \/ BackToLocationStep
    \/ calculateSeismicLoads
    \/ resetSeismicCalculator

SpecWizard == WizardInit /\ [][WizardNext]_vars

\* ------------------------------------------------------------------------
\* Claims about the seismic wizard.
\* ------------------------------------------------------------------------
\* calculateSeismicLoads has just put results on display: no other step
\* leads from step 3 to step 4.
WizardCalculated == wizardStep = 3 /\ wizardStep' = 4

\* The base shear claimed for a record and parameters, in thousandths of a
\* kN: V, the long-period term of Vmin, and the floor 0.005 W.
ClaimedShears(record, params) ==
    LET system == structuralSystems[params.structuralSystem]
        Sa02 == MulS(MulS(Ratio(2, 3), Fa(params.siteClass)), Spectral(record.sa0p2))
        Sa10 == MulS(MulS(Ratio(2, 3), Fv(params.siteClass)), Spectral(record.sa1p0))
        rdro == MulS(Ratio(system.Rd, 10), Ratio(system.Ro, 10))
    IN  [Sa02 |-> Sa02, Sa10 |-> Sa10,
         V |-> MulDiv(MulS(Sa02, Ie(params.importance)), params.weight * 1000, rdro),
         long |-> MulDiv(MulS(Sa10, Ie(params.importance)), params.weight * 1000, rdro),
         floor |-> 5 * params.weight]

\* C21: whenever the wizard computes results, the design accelerations are
\* (2/3) Fa Sa(0.2) and (2/3) Fv Sa(1.0), the base shear reported is
\* max(V, Vmin) with V = SaDesign(0.2) Ie W / (Rd Ro) and Vmin = max(0.005 W,
\* SaDesign(1.0) Ie W / (Rd Ro)); so it is Vmin whenever V < Vmin, and never
\* below 0.005 W.
BaseShearFormula ==
    [][WizardCalculated =>
          LET c == ClaimedShears(currentSeismicData[1], buildingParams)
              Vmin == IF c.floor >= c.long THEN c.floor ELSE c.long
              reported == seismicResults'[5].value
          IN  /\ seismicResults'[1].value = c.Sa02
              /\ seismicResults'[2].value = c.Sa10
              /\ seismicResults'[5].parameter = "Base Shear"
              /\ reported = IF c.V >= Vmin THEN c.V ELSE Vmin
              /\ c.V < Vmin => reported = Vmin
              /\ reported >= c.floor]_vars

\* C21 witness: results are on display for a 10000 kN steel moment frame whose
\* V lies below the floor of 0.005 W, and the base shear shown is 50 kN.
FloorGovernsBaseShear ==
    /\ wizardStep = 4
    /\ currentSeismicData # <<>>
    /\ buildingParams.weight = 10000
    /\ buildingParams.structuralSystem = "Steel Moment Frame - Ductile"
    /\ ClaimedShears(currentSeismicData[1], buildingParams).V < 50000
    /\ ClaimedShears(currentSeismicData[1], buildingParams).long < 50000
    /\ seismicResults[5].value = 50000

\* ------------------------------------------------------------------------
\* The table calculator: the seismic calculator fed by canadianSeismicData.
\* ------------------------------------------------------------------------
\* Entries of canadianSeismicData picked; PGA, Sa02 and Sa10 in hundredths.
canadianSeismicData ==
    { [city |-> "Vancouver", PGA |-> 23, Sa02 |-> 65, Sa10 |-> 25],
      [city |-> "Calgary", PGA |-> 3, Sa02 |-> 8, Sa10 |-> 3] }

\* importanceFactors of the table calculator.
seismicImportanceFactors ==
    [importance \in {"Low", "Normal", "High", "Post-disaster"} |->
        CASE importance = "Low" -> [Ie |-> Num(8, 10)]
          [] importance = "Normal" -> [Ie |-> Num(10, 10)]
          [] importance = "High" -> [Ie |-> Num(13, 10)]
          [] OTHER -> [Ie |-> Num(15, 10)]]

\* siteFactors: one Fa for every class.
siteFactors == [siteClass \in {"A", "B", "C", "D", "E", "F"} |-> [Fa |-> Num(10, 10)]]

\* Fv of the table calculator, a constant of calculateSeismicLoads.
TableFv(siteClass) == Num(10, 10)

\* Jx raised by the vertical flag alone.
JxOfVerticalOnly(irregularities) ==
    IF irregularities.vertical THEN Num(15, 10) ELSE Num(10, 10)

\* Jx, the irregularity factor.
Jx(irregularities) ==
    IF irregularities.horizontal \/ irregularities.vertical
    THEN Num(15, 10) ELSE Num(10, 10)

\* The design spectral response acceleration for the period Ta.
DesignSa(SDS, SD1, Ta) ==
    LET TL == Num(8, 1)
        TS == DivS(SD1, SDS)
        T0 == MulS(Num(2, 10), TS)
    IN  IF Ta <= T0 THEN MulS(SDS, Num(4, 10) + DivS(MulS(Num(6, 10), Ta), T0))
        ELSE IF Ta <= TS THEN SDS
        ELSE IF Ta <= TL THEN DivS(SD1, Ta)
        ELSE DivS(MulS(SD1, TL), MulS(Ta, Ta))

\* seismicData of calculateSeismicLoads: the selected location, and without
\* one the custom values parsed.
TableSeismicData ==
    IF tableLocation # <<>> THEN tableLocation[1]
    ELSE [city |-> "", PGA |-> customSeismic.PGA[1], Sa02 |-> customSeismic.Sa02[1],
          Sa10 |-> customSeismic.Sa10[1]]

\* One entry of the table calculator's results.
TableResult(parameter, value) == [parameter |-> parameter, value |-> value]

\* The results calculateSeismicLoads computes; shears and forces in
\* thousandths of a kN.
TableCalculation ==
    LET seismic == TableSeismicData
        system == structuralSystems[tableParams.structuralSystem]
        importanceFactor == seismicImportanceFactors[tableParams.importance].Ie
        SaS == MulS(Num(seismic.Sa02, 100), siteFactors[tableParams.siteClass].Fa)
        Sa1 == MulS(Num(seismic.Sa10, 100), TableFv(tableParams.siteClass))
        SDS == MulS(Num(2, 3), SaS)
        SD1 == MulS(Num(2, 3), Sa1)
        Ta == MulS(Num(5, 100), MathPow(tableParams.height * Scale, Num(75, 100)))
        Sa == DesignSa(SDS, SD1, Ta)
        factor == Jx(tableParams.irregularities)
        V == MulS(ShearOf(Sa, importanceFactor, tableParams.weight, system), factor)
        Vmin == MathMax({MulDiv(MulS(Num(25, 1000), importanceFactor),
                                tableParams.weight * 1000, Scale),
                         ShearOf(Num(seismic.PGA, 100), importanceFactor,
                                 tableParams.weight, system)})
        Vdesign == MathMax({V, Vmin})
    IN  << TableResult("Peak Ground Acceleration", Num(seismic.PGA, 100)),
           TableResult("Short Period Sa", Num(seismic.Sa02, 100)),
           TableResult("Long Period Sa", Num(seismic.Sa10, 100)),
           TableResult("Design Short Sa", SDS),
           TableResult("Design Long Sa", SD1),
           TableResult("Fundamental Period", Ta),
           TableResult("Design Sa", Sa),
           TableResult("Importance Factor", importanceFactor),
           TableResult("Ductility Factor", Num(system.Rd, 10)),
           TableResult("Overstrength Factor", Num(system.Ro, 10)),
           TableResult("Irregularity Factor", factor),
           TableResult("Calculated Base Shear", V),
           TableResult("Minimum Base Shear", Vmin),
           TableResult("Design Base Shear", Vdesign),
           TableResult("Average Story Force", Vdesign \div tableParams.floors) >>

\* Heights, importance categories, site classes and systems picked.
TableHeights == {1, 5, 20}
TableImportances == {"Normal", "High"}
TableSiteClasses == {"C", "E"}
TableSystems == {"Steel Moment Frame - Ductile", "Unreinforced Masonry"}

\* A city button of step 1.
TableSelectLocation ==
    /\ tableStep = 1
    /\ \E location \in canadianSeismicData : tableLocation' = <<location>>
    /\ tableStep' = 2
    /\ UNCHANGED <<customSeismic, tableParams, tableResults, tableShowResults>>
    /\ UNCHANGED <<calcVars, wizardVars, otherVars>>

\* The four custom fields of step 1: emptied, or filled in.
setCustomSeismic ==
    /\ tableStep = 1
    /\ \E custom \in { [location |-> <<>>, PGA |-> <<>>, Sa02 |-> <<>>, Sa10 |-> <<>>],
                       [location |-> <<"Site">>, PGA |-> <<20>>, Sa02 |-> <<50>>,
                        Sa10 |-> <<20>>] } :
          customSeismic' = custom
    /\ UNCHANGED <<tableStep, tableLocation, tableParams, tableResults, tableShowResults>>
    /\ UNCHANGED <<calcVars, wizardVars, otherVars>>

\* "Continue with Custom Parameters": selectedLocation stays as it is.
TableContinueCustom ==
    /\ tableStep = 1
    /\ customSeismic.location # <<>> /\ customSeismic.PGA # <<>>
    /\ customSeismic.Sa02 # <<>> /\ customSeismic.Sa10 # <<>>
    /\ tableStep' = 2
    /\ UNCHANGED <<tableLocation, customSeismic, tableParams, tableResults,
                   tableShowResults>>
    /\ UNCHANGED <<calcVars, wizardVars, otherVars>>

\* "Change Location".
TableChangeLocation ==
    /\ tableStep = 2
    /\ tableStep' = 1
    /\ tableShowResults' = FALSE
    /\ UNCHANGED <<tableLocation, customSeismic, tableParams, tableResults>>
    /\ UNCHANGED <<calcVars, wizardVars, otherVars>>

\* The importance, height, site-class and system fields of the workspace.
setTableParams ==
    /\ tableStep = 2
    /\ \/ \E importance \in TableImportances :
             tableParams' = [tableParams EXCEPT !.importance = importance]
       \/ \E height \in TableHeights :
             tableParams' = [tableParams EXCEPT !.height = height]
       \/ \E siteClass \in TableSiteClasses :
             tableParams' = [tableParams EXCEPT !.siteClass = siteClass]
       \/ \E system \in TableSystems :
             tableParams' = [tableParams EXCEPT !.structuralSystem = system]
    /\ UNCHANGED <<tableStep, tableLocation, customSeismic, tableResults,
                   tableShowResults>>
    /\ UNCHANGED <<calcVars, wizardVars, otherVars>>

\* The two irregularity checkboxes of the workspace.
setTableIrregularities ==
    /\ tableStep = 2
    /\ \E checked \in BOOLEAN :
          \/ tableParams' = [tableParams EXCEPT !.irregularities.vertical = checked]
          \/ tableParams' = [tableParams EXCEPT !.irregularities.horizontal = checked]
    /\ UNCHANGED <<tableStep, tableLocation, customSeismic, tableResults,
                   tableShowResults>>
    /\ UNCHANGED <<calcVars, wizardVars, otherVars>>

\* calculateSeismicLoads of the table calculator.
calculateTableLoads ==
    /\ tableStep = 2
    /\ IF tableLocation = <<>> /\ customSeismic.PGA = <<>>
       THEN UNCHANGED <<tableResults, tableShowResults>>
       ELSE /\ tableResults' = TableCalculation
            /\ tableShowResults' = TRUE
    /\ UNCHANGED <<tableStep, tableLocation, customSeismic, tableParams>>
    /\ UNCHANGED <<calcVars, wizardVars, otherVars>>

TableInit == ResolverInit /\ ConvIdle /\ CalcIdle /\ EngineIdle

TableNext ==
    \/ TableSelectLocation
    \/ setCustomSeismic
    \/ TableContinueCustom
    \/ TableChangeLocation
    \/ setTableParams
    \/ setTableIrregularities
    \/ calculateTableLoads

SpecTable == TableInit /\ [][TableNext]_vars

\* ------------------------------------------------------------------------
\* Claims about the two seismic calculators.
\* ------------------------------------------------------------------------
\* calculateSeismicLoads of the table calculator has just computed results:
\* no other step of the workspace changes what is on display.
TableCalculated ==
    /\ tableStep = 2 /\ tableStep' = 2
    /\ <<tableResults, tableShowResults>>' # <<tableResults, tableShowResults>>

\* Whatever the two flags, the wizard computes what it computes with both
\* clear, for every record and all parameters picked.
WizardIgnoresIrregularities ==
    \A s \in PickedSpectra, siteClass \in PickedSiteClasses,
       importance \in PickedImportances, details \in PickedDetails,
       vertical \in BOOLEAN, horizontal \in BOOLEAN :
        LET params == [importance |-> importance, height |-> 20,
                       weight |-> details.weight,
                       structuralSystem |-> details.structuralSystem,
                       irregularities |-> [vertical |-> FALSE, horizontal |-> FALSE],
                       siteClass |-> siteClass]
            flagged == [params EXCEPT !.irregularities =
                           [vertical |-> vertical, horizontal |-> horizontal]]
        IN  SeismicCalculation(ResolvedRecord(s, siteClass), flagged)
                = SeismicCalculation(ResolvedRecord(s, siteClass), params)

\* C22: both calculators start with the two irregularity flags clear; whenever
\* the table calculator computes results, its irregularity factor is 1.5 if
\* the vertical or the horizontal flag is set and 1.0 if both are clear, and
\* its calculated base shear is Sa Ie W / (Rd Ro) times that factor; the
\* wizard's results are the same whatever the flags.
IrregularityAmplification ==
    /\ tableParams.irregularities = [vertical |-> FALSE, horizontal |-> FALSE]
    /\ buildingParams.irregularities = [vertical |-> FALSE, horizontal |-> FALSE]
    /\ [][TableCalculated =>
            \A shown \in {tableResults'} :
            \A plain \in {ShearOf(shown[7].value, shown[8].value, tableParams.weight,
                                   structuralSystems[tableParams.structuralSystem])} :
                /\ shown[11].parameter = "Irregularity Factor"
                /\ shown[11].value =
                      IF tableParams.irregularities.vertical
                            \/ tableParams.irregularities.horizontal
                      THEN Ratio(15, 10) ELSE Ratio(10, 10)
                /\ shown[12].parameter = "Calculated Base Shear"
                /\ shown[12].value = MulS(plain, shown[11].value)
                /\ WizardIgnoresIrregularities]_vars

\* C22 witness: results are on display for Vancouver with the horizontal flag
\* alone set: the factor shown is 1.5 and the calculated base shear, which
\* governs, is above the minimum.
HorizontalIrregularityAmplified ==
    /\ tableShowResults
    /\ tableLocation # <<>> /\ tableLocation[1].city = "Vancouver"
    /\ tableParams.irregularities = [vertical |-> FALSE, horizontal |-> TRUE]
    /\ tableResults[11].value = Num(15, 10)
    /\ tableResults[12].value > tableResults[13].value
    /\ tableResults[14].value = tableResults[12].value

\* The site classes from the hardest ground to the softest.
OrderedSiteClasses == <<"A", "B", "C", "D", "E">>

\* C25: whichever site class from B to E is selected, in the wizard or in the
\* table calculator, the Fa and the Fv of that calculator for it are greater
\* than those for the class before it.
SiteCoefficientsIncrease ==
    \A i \in 1 .. 4 :
        LET before == OrderedSiteClasses[i]
            after == OrderedSiteClasses[i + 1]
        IN  /\ buildingParams.siteClass = after =>
                  Fa(before) < Fa(after) /\ Fv(before) < Fv(after)
            /\ tableParams.siteClass = after =>
                  /\ siteFactors[before].Fa < siteFactors[after].Fa
                  /\ TableFv(before) < TableFv(after)

\* A hazard-data request is outstanding: it was submitted, and the effect on
\* the action data it brought has yet to run.
RequestOutstanding == submitted \/ (actionEffectDue /\ actionData # <<>>)

\* C28: isLoading is true as long as a hazard-data request is outstanding,
\* whichever handler submitted it.
LoadingWhileRequestOutstanding == RequestOutstanding => isLoading

\* C26: whenever the wizard computes results, the site class its Fa and Fv are
\* looked up for is the site class the record in use was resolved for.
SiteClassOfRecordUsed ==
    [][WizardCalculated => buildingParams.siteClass = currentSeismicData[1].siteClass]_vars

====
